---- MODULE Spec2Model ----
(***************************************************************************)
(* A state-machine model of the bytecode virtual machine of oxyscript      *)
(* (src/dryw/src/vm.rs): operand stack, call frames, globals, open/closed  *)
(* upvalues, the call machine and the dispatch loop of Vm::run.            *)
(*                                                                         *)
(* Conventions.  Stack slots, slot_base and upvalue locations keep the     *)
(* 0-based indices of the Rust code; the TLA+ sequence element of slot i   *)
(* is stack[i + 1].  The instruction pointer is counted in instructions:   *)
(* ip = 1 is &chunk.code[0], ip = 0 is the null pointer of Vm::default.    *)
(* Heap objects (closures, upvalues, classes, instances, bound methods,    *)
(* vecs, ranges) live in sequences; a reference is the index of the       *)
(* object.                                                                 *)
(***************************************************************************)
EXTENDS Integers, Sequences, FiniteSets, TLC

FRAMES_MAX == 64

\* How many times execute is called on one Vm.
MaxExecutes == 2

(***************************************************************************)
(* Values (crate::value::Value): a tag, a number and a string.  Number     *)
(* holds n, Boolean holds n \in {0, 1}, object variants hold the heap      *)
(* reference in n, ObjString and ObjNative hold their text / name in s.    *)
(***************************************************************************)
V(tag, n, s) == [tag |-> tag, n |-> n, s |-> s]
None == V("None", 0, "")
Boolean(b) == V("Boolean", IF b THEN 1 ELSE 0, "")
Number(n) == V("Number", n, "")
Sentinel == V("Sentinel", 0, "")
ObjString(s) == V("ObjString", 0, s)
ObjFunction(f) == V("ObjFunction", 0, f)
ObjClosure(c) == V("ObjClosure", c, "")
ObjNative(name) == V("ObjNative", 0, name)
ObjClass(c) == V("ObjClass", c, "")
ObjInstance(i) == V("ObjInstance", i, "")
ObjBoundMethod(b) == V("ObjBoundMethod", b, "")
ObjBoundNative(b) == V("ObjBoundNative", b, "")
ObjVec(v) == V("ObjVec", v, "")
ObjUpvalue(u) == V("ObjUpvalue", u, "")
ObjRange(r) == V("ObjRange", r, "")

\* Value::as_bool: None and Boolean(false) are false, everything else true.
as_bool(v) == ~(v.tag = "None" \/ (v.tag = "Boolean" /\ v.n = 0))

(***************************************************************************)
(* Errors (crate::error::Error): kind, the initiating diagnostic with its  *)
(* format arguments, and the trace lines added by runtime_error.           *)
(***************************************************************************)
MkError(kind, msg, name, n1, n2) ==
    [kind |-> kind, msg |-> msg, name |-> name, n1 |-> n1, n2 |-> n2, trace |-> <<>>]
NoError == MkError("", "", "", 0, 0)

\* HashMap insert / remove on a map represented as a function.
EmptyMap == [k \in {} |-> None]
Insert(map, k, v) == [x \in (DOMAIN map) \cup {k} |-> IF x = k THEN v ELSE map[x]]
Remove(map, k) == [x \in (DOMAIN map) \ {k} |-> map[x]]

(***************************************************************************)
(* Instructions.  a and b are the operand bytes, ups the (is_local, index) *)
(* pairs that follow a Closure instruction.                                *)
(***************************************************************************)
I0(op) == [op |-> op, a |-> 0, b |-> 0, ups |-> <<>>]
I1(op, a) == [op |-> op, a |-> a, b |-> 0, ups |-> <<>>]
I2(op, a, b) == [op |-> op, a |-> a, b |-> b, ups |-> <<>>]
IClosure(a, ups) == [op |-> "Closure", a |-> a, b |-> 0, ups |-> ups]
Up(is_local, index) == [is_local |-> is_local, index |-> index]
MkFunction(name, arity, upvalue_count, chunk_index) ==
    [name |-> name, arity |-> arity, upvalue_count |-> upvalue_count,
     chunk_index |-> chunk_index]
\* A chunk: code, constants and the line table (every instruction of the
\* chunks below stands on a source line of its own).
MkChunk(code, constants) ==
    [code |-> code, constants |-> constants, lines |-> [i \in 1..Len(code) |-> i]]

(***************************************************************************)
(* The chunk store and the functions the compiler hands to the Vm.  Each   *)
(* chunk is the compilation of the source text quoted above it, following  *)
(* the opcode table; function f's chunk is Chunks[f.chunk_index].          *)
(***************************************************************************)

\* fn mk(x) { fn g() { return x; } return g; }
\* var get; var set;
\* { var a = 1; fn g() { return a; } fn s() { a = 2; } get = g; set = s; }
\* var h = mk(10); h(); set(); get();
ChunkClosures ==
    MkChunk(<< IClosure(0, <<>>), I1("DefineGlobal", 1),
               I0("Nil"), I1("DefineGlobal", 2), I0("Nil"), I1("DefineGlobal", 3),
               I1("Constant", 4),
               IClosure(5, <<Up(TRUE, 1)>>), IClosure(6, <<Up(TRUE, 1)>>),
               I1("GetLocal", 2), I1("SetGlobal", 2), I0("Pop"),
               I1("GetLocal", 3), I1("SetGlobal", 3), I0("Pop"),
               I0("Pop"), I0("Pop"), I0("CloseUpvalue"),
               I1("GetGlobal", 1), I1("Constant", 7), I1("Call", 1),
               I1("DefineGlobal", 8), I1("GetGlobal", 8), I1("Call", 0), I0("Pop"),
               I1("GetGlobal", 3), I1("Call", 0), I0("Pop"),
               I1("GetGlobal", 2), I1("Call", 0), I0("Pop"),
               I0("Nil"), I0("Return") >>,
            << ObjFunction("mk"), ObjString("mk"), ObjString("get"), ObjString("set"),
               Number(1), ObjFunction("g"), ObjFunction("s"), Number(10),
               ObjString("h") >>)

\* fn mk(x) { fn g() { return x; } return g; }
ChunkMk ==
    MkChunk(<< IClosure(0, <<Up(TRUE, 1)>>), I1("GetLocal", 2), I0("Return"),
               I0("Nil"), I0("Return") >>,
            << ObjFunction("g") >>)

\* fn g() { return a; }      (a is upvalue 0)
ChunkG ==
    MkChunk(<< I1("GetUpvalue", 0), I0("Return"), I0("Nil"), I0("Return") >>, <<>>)

\* fn s() { a = 2; }         (a is upvalue 0)
ChunkS ==
    MkChunk(<< I1("Constant", 0), I1("SetUpvalue", 0), I0("Pop"),
               I0("Nil"), I0("Return") >>,
            << Number(2) >>)

\* var get; var set;
\* { var a = 1; fn g() { return a; } fn s() { a = 2; } get = g; set = s; y = 3; }
ChunkLeak ==
    MkChunk(<< I0("Nil"), I1("DefineGlobal", 0), I0("Nil"), I1("DefineGlobal", 1),
               I1("Constant", 2),
               IClosure(3, <<Up(TRUE, 1)>>), IClosure(4, <<Up(TRUE, 1)>>),
               I1("GetLocal", 2), I1("SetGlobal", 0), I0("Pop"),
               I1("GetLocal", 3), I1("SetGlobal", 1), I0("Pop"),
               I1("Constant", 5), I1("SetGlobal", 6), I0("Pop"),
               I0("Pop"), I0("Pop"), I0("CloseUpvalue"),
               I0("Nil"), I0("Return") >>,
            << ObjString("get"), ObjString("set"), Number(1), ObjFunction("g"),
               ObjFunction("s"), Number(3), ObjString("y") >>)

\* { var b = 7; get(); set(); }
ChunkUse ==
    MkChunk(<< I1("Constant", 0),
               I1("GetGlobal", 1), I1("Call", 0), I0("Pop"),
               I1("GetGlobal", 2), I1("Call", 0), I0("Pop"),
               I0("Pop"), I0("Nil"), I0("Return") >>,
            << Number(7), ObjString("get"), ObjString("set") >>)

\* fn r() { r(); }  r();
ChunkRecurse ==
    MkChunk(<< IClosure(0, <<>>), I1("DefineGlobal", 1),
               I1("GetGlobal", 1), I1("Call", 0), I0("Pop"),
               I0("Nil"), I0("Return") >>,
            << ObjFunction("r"), ObjString("r") >>)

\* fn r() { r(); }
ChunkR ==
    MkChunk(<< I1("GetGlobal", 0), I1("Call", 0), I0("Pop"), I0("Nil"), I0("Return") >>,
            << ObjString("r") >>)

\* fn f(n) { if (n < FRAMES_MAX - 2) { f(n + 1); } else { f(); } }  f(0);
ChunkDeep ==
    MkChunk(<< IClosure(0, <<>>), I1("DefineGlobal", 1),
               I1("GetGlobal", 1), I1("Constant", 2), I1("Call", 1), I0("Pop"),
               I0("Nil"), I0("Return") >>,
            << ObjFunction("f"), ObjString("f"), Number(0) >>)

\* fn f(n) { if (n < FRAMES_MAX - 2) { f(n + 1); } else { f(); } }
ChunkF ==
    MkChunk(<< I1("GetLocal", 1), I1("Constant", 0), I0("Less"),
               I1("JumpIfFalse", 8), I0("Pop"),
               I1("GetGlobal", 1), I1("GetLocal", 1), I1("Constant", 2), I0("Add"),
               I1("Call", 1), I0("Pop"), I1("Jump", 4),
               I0("Pop"), I1("GetGlobal", 1), I1("Call", 0), I0("Pop"),
               I0("Nil"), I0("Return") >>,
            << Number(FRAMES_MAX - 2), ObjString("f"), Number(1) >>)

\* class A { m(a) { return a; } }
\* class B { __init__(a) { } }
\* var o = A(); o.m(1); var b = o.m; b(2); o.f = b; o.f(3); B(4);
ChunkClasses ==
    MkChunk(<< I1("Class", 0), I1("DefineGlobal", 0), I1("GetGlobal", 0),
               IClosure(1, <<>>), I1("Method", 2), I0("Pop"),
               I1("Class", 3), I1("DefineGlobal", 3), I1("GetGlobal", 3),
               IClosure(4, <<>>), I1("Method", 5), I0("Pop"),
               I1("GetGlobal", 0), I1("Call", 0), I1("DefineGlobal", 6),
               I1("GetGlobal", 6), I1("Constant", 7), I2("Invoke", 2, 1), I0("Pop"),
               I1("GetGlobal", 6), I1("GetProperty", 2), I1("DefineGlobal", 8),
               I1("GetGlobal", 8), I1("Constant", 9), I1("Call", 1), I0("Pop"),
               I1("GetGlobal", 6), I1("GetGlobal", 8), I1("SetProperty", 10), I0("Pop"),
               I1("GetGlobal", 6), I1("Constant", 11), I2("Invoke", 10, 1), I0("Pop"),
               I1("GetGlobal", 3), I1("Constant", 12), I1("Call", 1), I0("Pop"),
               I0("Nil"), I0("Return") >>,
            << ObjString("A"), ObjFunction("m"), ObjString("m"), ObjString("B"),
               ObjFunction("init"), ObjString("__init__"), ObjString("o"), Number(1),
               ObjString("b"), Number(2), ObjString("f"), Number(3), Number(4) >>)

\* m(a) { return a; }
ChunkM ==
    MkChunk(<< I1("GetLocal", 1), I0("Return"), I0("Nil"), I0("Return") >>, <<>>)

\* __init__(a) { }           (an initializer returns the instance in slot 0)
ChunkInit ==
    MkChunk(<< I1("GetLocal", 0), I0("Return") >>, <<>>)

\* o.m();
ChunkBadInvoke ==
    MkChunk(<< I1("GetGlobal", 0), I2("Invoke", 1, 0), I0("Pop"), I0("Nil"), I0("Return") >>,
            << ObjString("o"), ObjString("m") >>)

\* o.f();
ChunkBadField ==
    MkChunk(<< I1("GetGlobal", 0), I2("Invoke", 1, 0), I0("Pop"), I0("Nil"), I0("Return") >>,
            << ObjString("o"), ObjString("f") >>)

\* b();
ChunkBadBound ==
    MkChunk(<< I1("GetGlobal", 0), I1("Call", 0), I0("Pop"), I0("Nil"), I0("Return") >>,
            << ObjString("b") >>)

\* B();
ChunkBadInit ==
    MkChunk(<< I1("GetGlobal", 0), I1("Call", 0), I0("Pop"), I0("Nil"), I0("Return") >>,
            << ObjString("B") >>)

\* mk();
ChunkBadCall ==
    MkChunk(<< I1("GetGlobal", 0), I1("Call", 0), I0("Pop"), I0("Nil"), I0("Return") >>,
            << ObjString("mk") >>)

\* print(sentinel()); print();
ChunkNatives ==
    MkChunk(<< I1("GetGlobal", 0), I1("GetGlobal", 1), I1("Call", 0), I1("Call", 1),
               I0("Pop"), I1("GetGlobal", 0), I1("Call", 0), I0("Pop"),
               I0("Nil"), I0("Return") >>,
            << ObjString("print"), ObjString("sentinel") >>)

\* var v = [1, 2]; var l = v.len; print(l()); print(v.len());
\* var r = Range(0, 3); r.__init__(1, 2); var i = r.__init__;
ChunkVec ==
    MkChunk(<< I1("Constant", 0), I1("Constant", 1), I1("BuildVec", 2), I1("DefineGlobal", 2),
               I1("GetGlobal", 2), I1("GetProperty", 3), I1("DefineGlobal", 4),
               I1("GetGlobal", 5), I1("GetGlobal", 4), I1("Call", 0), I1("Call", 1), I0("Pop"),
               I1("GetGlobal", 5), I1("GetGlobal", 2), I2("Invoke", 3, 0), I1("Call", 1),
               I0("Pop"),
               I1("GetGlobal", 6), I1("Constant", 7), I1("Constant", 8), I1("Call", 2),
               I1("DefineGlobal", 9),
               I1("GetGlobal", 9), I1("Constant", 0), I1("Constant", 1), I2("Invoke", 10, 2),
               I0("Pop"),
               I1("GetGlobal", 9), I1("GetProperty", 10), I1("DefineGlobal", 11),
               I0("Nil"), I0("Return") >>,
            << Number(1), Number(2), ObjString("v"), ObjString("len"), ObjString("l"),
               ObjString("print"), ObjString("Range"), Number(0), Number(3),
               ObjString("r"), ObjString("__init__"), ObjString("i") >>)

\* clock(1); print(String(1)); sentinel(1);
ChunkClock ==
    MkChunk(<< I1("GetGlobal", 0), I1("Constant", 1), I1("Call", 1), I0("Pop"),
               I1("GetGlobal", 2), I1("GetGlobal", 3), I1("Constant", 1), I1("Call", 1),
               I1("Call", 1), I0("Pop"),
               I1("GetGlobal", 4), I1("Constant", 1), I1("Call", 1), I0("Pop"),
               I0("Nil"), I0("Return") >>,
            << ObjString("clock"), Number(1), ObjString("print"), ObjString("String"),
               ObjString("sentinel") >>)

\* String();
ChunkString ==
    MkChunk(<< I1("GetGlobal", 0), I1("Call", 0), I0("Pop"), I0("Nil"), I0("Return") >>,
            << ObjString("String") >>)

\* fn inner() { return nope; }  fn outer() { return inner(); }  outer();
ChunkTrace ==
    MkChunk(<< IClosure(0, <<>>), I1("DefineGlobal", 1),
               IClosure(2, <<>>), I1("DefineGlobal", 3),
               I1("GetGlobal", 3), I1("Call", 0), I0("Pop"),
               I0("Nil"), I0("Return") >>,
            << ObjFunction("inner"), ObjString("inner"), ObjFunction("outer"),
               ObjString("outer") >>)

\* fn outer() { return inner(); }
ChunkOuter ==
    MkChunk(<< I1("GetGlobal", 0), I1("Call", 0), I0("Return"), I0("Nil"), I0("Return") >>,
            << ObjString("inner") >>)

\* fn inner() { return nope; }
ChunkInner ==
    MkChunk(<< I1("GetGlobal", 0), I0("Return"), I0("Nil"), I0("Return") >>,
            << ObjString("nope") >>)

\* { var a = 1; fn g() { return a; } fn s() { a = 2; } s(); print(g()); print(a); }
ChunkShare ==
    MkChunk(<< I1("Constant", 0),
               IClosure(1, <<Up(TRUE, 1)>>), IClosure(2, <<Up(TRUE, 1)>>),
               I1("GetLocal", 3), I1("Call", 0), I0("Pop"),
               I1("GetGlobal", 3), I1("GetLocal", 2), I1("Call", 0), I1("Call", 1), I0("Pop"),
               I1("GetGlobal", 3), I1("GetLocal", 1), I1("Call", 1), I0("Pop"),
               I0("Pop"), I0("Pop"), I0("CloseUpvalue"),
               I0("Nil"), I0("Return") >>,
            << Number(1), ObjFunction("g"), ObjFunction("s"), ObjString("print") >>)

\* { var a = 1; fn g() { return a; } { var b = 2; fn g() { return b; } } }
ChunkNested ==
    MkChunk(<< I1("Constant", 0), IClosure(1, <<Up(TRUE, 1)>>),
               I1("Constant", 2), IClosure(1, <<Up(TRUE, 3)>>),
               I0("Pop"), I0("CloseUpvalue"),
               I0("Pop"), I0("CloseUpvalue"),
               I0("Nil"), I0("Return") >>,
            << Number(1), ObjFunction("g"), Number(2) >>)

\* A(1);
ChunkBadClass ==
    MkChunk(<< I1("GetGlobal", 0), I1("Constant", 1), I1("Call", 1), I0("Pop"),
               I0("Nil"), I0("Return") >>,
            << ObjString("A"), Number(1) >>)

\* o.m = 5; o.m(1);
ChunkShadow ==
    MkChunk(<< I1("GetGlobal", 0), I1("Constant", 1), I1("SetProperty", 2), I0("Pop"),
               I1("GetGlobal", 0), I1("Constant", 3), I2("Invoke", 2, 1), I0("Pop"),
               I0("Nil"), I0("Return") >>,
            << ObjString("o"), Number(5), ObjString("m"), Number(1) >>)

\* o.zz();
ChunkUndefined ==
    MkChunk(<< I1("GetGlobal", 0), I2("Invoke", 1, 0), I0("Pop"), I0("Nil"), I0("Return") >>,
            << ObjString("o"), ObjString("zz") >>)

\* class P { m(a) { return a; } k(a) { return a; } }
\* class Q < P { m(a) { return a; } }
\* Q().k(1);
\* class R < print { }
ChunkInherit ==
    MkChunk(<< I1("Class", 0), I1("DefineGlobal", 0), I1("GetGlobal", 0),
               IClosure(1, <<>>), I1("Method", 2), IClosure(1, <<>>), I1("Method", 3),
               I0("Pop"),
               I1("Class", 4), I1("DefineGlobal", 4), I1("GetGlobal", 0), I1("GetGlobal", 4),
               I0("Inherit"), I1("GetGlobal", 4), IClosure(1, <<>>), I1("Method", 2),
               I0("Pop"), I0("Pop"),
               I1("GetGlobal", 4), I1("Call", 0), I1("Constant", 5), I2("Invoke", 3, 1),
               I0("Pop"),
               I1("Class", 6), I1("DefineGlobal", 6), I1("GetGlobal", 7), I1("GetGlobal", 6),
               I0("Inherit"), I1("GetGlobal", 6), I0("Pop"), I0("Pop"),
               I0("Nil"), I0("Return") >>,
            << ObjString("P"), ObjFunction("m"), ObjString("m"), ObjString("k"),
               ObjString("Q"), Number(1), ObjString("R"), ObjString("print") >>)

\* if (nil) { }  if (false) { }  if (true) { }  if (sentinel()) { }
\* followed by the exit test of a for loop (JumpIfSentinel in the place of
\* JumpIfFalse) on the same four values
ChunkJumps ==
    MkChunk(<< I0("Nil"), I1("JumpIfFalse", 2), I0("Pop"), I1("Jump", 1), I0("Pop"),
               I0("False"), I1("JumpIfFalse", 2), I0("Pop"), I1("Jump", 1), I0("Pop"),
               I0("True"), I1("JumpIfFalse", 2), I0("Pop"), I1("Jump", 1), I0("Pop"),
               I1("GetGlobal", 0), I1("Call", 0),
               I1("JumpIfFalse", 2), I0("Pop"), I1("Jump", 1), I0("Pop"),
               I0("Nil"), I1("JumpIfSentinel", 2), I0("Pop"), I1("Jump", 1), I0("Pop"),
               I0("False"), I1("JumpIfSentinel", 2), I0("Pop"), I1("Jump", 1), I0("Pop"),
               I0("True"), I1("JumpIfSentinel", 2), I0("Pop"), I1("Jump", 1), I0("Pop"),
               I1("GetGlobal", 0), I1("Call", 0),
               I1("JumpIfSentinel", 2), I0("Pop"), I1("Jump", 1), I0("Pop"),
               I0("Nil"), I0("Return") >>,
            << ObjString("sentinel") >>)

\* fn main(x) { if (x < 9) { print(x); } return x; }
\* handed to execute with one argument
ChunkMain ==
    MkChunk(<< I1("GetLocal", 1), I1("Constant", 0), I0("Less"),
               I1("JumpIfFalse", 6), I0("Pop"),
               I1("GetGlobal", 1), I1("GetLocal", 1), I1("Call", 1), I0("Pop"),
               I1("Jump", 1), I0("Pop"),
               I1("GetLocal", 1), I0("Return"), I0("Nil"), I0("Return") >>,
            << Number(9), ObjString("print") >>)

Chunks ==
    << ChunkClosures, ChunkMk, ChunkG, ChunkS, ChunkLeak, ChunkUse, ChunkRecurse,
       ChunkR, ChunkDeep, ChunkF, ChunkClasses, ChunkM, ChunkInit, ChunkBadInvoke,
       ChunkBadField, ChunkBadBound, ChunkBadInit, ChunkBadCall, ChunkNatives,
       ChunkMain, ChunkVec, ChunkClock, ChunkString, ChunkTrace, ChunkOuter,
       ChunkInner, ChunkShare, ChunkNested, ChunkBadClass,
       ChunkShadow, ChunkUndefined, ChunkInherit, ChunkJumps >>

\* ObjFunction objects: name (empty for a script), arity (receiver slot
\* included), upvalue count, chunk index.
Functions ==
    [ closures  |-> MkFunction("", 1, 0, 1),
      mk        |-> MkFunction("mk", 2, 0, 2),
      g         |-> MkFunction("g", 1, 1, 3),
      s         |-> MkFunction("s", 1, 1, 4),
      leak      |-> MkFunction("", 1, 0, 5),
      use       |-> MkFunction("", 1, 0, 6),
      recurse   |-> MkFunction("", 1, 0, 7),
      r         |-> MkFunction("r", 1, 0, 8),
      deep      |-> MkFunction("", 1, 0, 9),
      f         |-> MkFunction("f", 2, 0, 10),
      classes   |-> MkFunction("", 1, 0, 11),
      m         |-> MkFunction("m", 2, 0, 12),
      init      |-> MkFunction("__init__", 2, 0, 13),
      badinvoke |-> MkFunction("", 1, 0, 14),
      badfield  |-> MkFunction("", 1, 0, 15),
      badbound  |-> MkFunction("", 1, 0, 16),
      badinit   |-> MkFunction("", 1, 0, 17),
      badcall   |-> MkFunction("", 1, 0, 18),
      natives   |-> MkFunction("", 1, 0, 19),
      main      |-> MkFunction("main", 2, 0, 20),
      vec       |-> MkFunction("", 1, 0, 21),
      clock     |-> MkFunction("", 1, 0, 22),
      string    |-> MkFunction("", 1, 0, 23),
      trace     |-> MkFunction("", 1, 0, 24),
      outer     |-> MkFunction("outer", 1, 0, 25),
      inner     |-> MkFunction("inner", 1, 0, 26),
      share     |-> MkFunction("", 1, 0, 27),
      nested    |-> MkFunction("", 1, 0, 28),
      badclass  |-> MkFunction("", 1, 0, 29),
      shadow    |-> MkFunction("", 1, 0, 30),
      undefined |-> MkFunction("", 1, 0, 31),
      inherit   |-> MkFunction("", 1, 0, 32),
      jumps     |-> MkFunction("", 1, 0, 33) ]

\* The calls execute(function, args) that are made on the Vm.
ExecuteInputs ==
    { <<fn, <<>>>> : fn \in { "closures", "leak", "use", "recurse", "deep", "classes",
                             "badinvoke", "badfield", "badbound", "badinit",
                             "badcall", "natives", "main", "vec", "clock",
                             "string", "trace", "share", "nested",
                             "badclass", "shadow", "undefined",
                             "inherit", "jumps" } }
      \cup { <<"main", <<Number(5)>>>>, <<"use", <<Number(5)>>>> }

(***************************************************************************)
(* State.  The first six variables are the fields of struct Vm             *)
(* (init_string is the constant "__init__"); the next seven are the heap   *)
(* objects the Vm reaches through Gc references; the rest is the position  *)
(* of the caller of execute and of the dispatch loop.                      *)
(***************************************************************************)
VARIABLES ip, active_chunk, frames, stack, globals, open_upvalues,
          closures, upvalues, classes, instances, bound_methods, vecs, ranges,
          status,     \* "idle": outside execute, "running": in Vm::run,
                      \* "error": run has returned Err, runtime_error not yet run,
                      \* "panic": the process has aborted on a Rust panic
          error,      \* the error being propagated while status = "error"
          result,     \* what the last execute returned
          executes,   \* how many times execute has been called
          last,       \* the operation that made the last step
          stale       \* upvalues that were open when an execute ended in an error

vars == <<ip, active_chunk, frames, stack, globals, open_upvalues,
          closures, upvalues, classes, instances, bound_methods, vecs, ranges,
          status, error, result, executes, last, stale>>

init_string == "__init__"

\* The Vm and its heap as one record, threaded through the methods below.
Cur ==
    [ip |-> ip, active_chunk |-> active_chunk, frames |-> frames, stack |-> stack,
     globals |-> globals, open_upvalues |-> open_upvalues, closures |-> closures,
     upvalues |-> upvalues, classes |-> classes, instances |-> instances,
     bound_methods |-> bound_methods, vecs |-> vecs, ranges |-> ranges]

\* Result<(), Error> of a method that also changes the Vm.
Ok(m) == [m |-> m, err |-> NoError]
Err(m, e) == [m |-> m, err |-> e]
IsErr(r) == r.err.kind # ""

(***************************************************************************)
(* Stack primitives.                                                       *)
(***************************************************************************)
peek(m, depth) == m.stack[Len(m.stack) - depth]
set_peek(m, depth, v) == [m EXCEPT !.stack[Len(m.stack) - depth] = v]
push(m, v) == [m EXCEPT !.stack = Append(@, v)]
pop(m) == [m EXCEPT !.stack = SubSeq(@, 1, Len(@) - 1)]
truncate(m, n) == [m EXCEPT !.stack = IF n < Len(@) THEN SubSeq(@, 1, n) ELSE @]
frame(m) == m.frames[Len(m.frames)]
slot(m, i) == m.stack[i + 1]

\* chunk::get_chunk and the read_constant! / read_string! macros.
get_chunk(index) == Chunks[index]
read_constant(m, index) == get_chunk(m.active_chunk).constants[index + 1]
read_string(m, index) == read_constant(m, index).s

(***************************************************************************)
(* Upvalues.  An ObjUpvalue is Open(slot) or Closed(value).                *)
(***************************************************************************)
Open(location) == [open |-> TRUE, slot |-> location, value |-> None]
Closed(value) == [open |-> FALSE, slot |-> 0, value |-> value]
is_open(u) == u.open
is_open_with_index(u, index) == u.open /\ u.slot = index

\* The first element of seq that satisfies Test, 0 when there is none.
FirstOpenAt(m, location) ==
    LET hits == { i \in 1..Len(m.open_upvalues) :
                    is_open_with_index(m.upvalues[m.open_upvalues[i]], location) }
    IN  IF hits = {} THEN 0
        ELSE m.open_upvalues[CHOOSE i \in hits : \A j \in hits : i <= j]

\* capture_upvalue allocating a new upvalue object on every capture.
capture_upvalue_AlwaysFresh(m, location) ==
    LET fresh == Len(m.upvalues) + 1
        m1 == [m EXCEPT !.upvalues = Append(@, Open(location))]
    IN  [m |-> [m1 EXCEPT !.open_upvalues = Append(@, fresh)], upvalue |-> fresh]

\* Vm::capture_upvalue: [m |-> the Vm afterwards, upvalue |-> the reference returned].
capture_upvalue(m, location) ==
    LET found == FirstOpenAt(m, location)
        fresh == Len(m.upvalues) + 1
        upvalue == IF found # 0 THEN found ELSE fresh
        m1 == IF found # 0 THEN m
              ELSE [m EXCEPT !.upvalues = Append(@, Open(location))]
    IN  [m |-> [m1 EXCEPT !.open_upvalues = Append(@, upvalue)], upvalue |-> upvalue]

\* close_upvalues that leaves the upvalues it has closed in the list.
close_upvalues_NoRetain(m, last_index, value) ==
    LET listed == { m.open_upvalues[i] : i \in 1..Len(m.open_upvalues) }
        heap == [u \in DOMAIN m.upvalues |->
                    IF u \in listed /\ is_open_with_index(m.upvalues[u], last_index)
                    THEN Closed(value) ELSE m.upvalues[u]]
    IN  [m EXCEPT !.upvalues = heap]

\* Vm::close_upvalues
close_upvalues(m, last_index, value) ==
    LET listed == { m.open_upvalues[i] : i \in 1..Len(m.open_upvalues) }
        heap == [u \in DOMAIN m.upvalues |->
                    IF u \in listed /\ is_open_with_index(m.upvalues[u], last_index)
                    THEN Closed(value) ELSE m.upvalues[u]]
        StillOpen(u) == is_open(heap[u])
    IN  [m EXCEPT !.upvalues = heap,
                  !.open_upvalues = SelectSeq(@, StillOpen)]

(***************************************************************************)
(* Native functions installed by new_root_vm.  args[1] is the receiver     *)
(* slot, the user arguments follow.                                        *)
(***************************************************************************)
NativeOk(v) == [err |-> NoError, value |-> v]
NativeErr(msg) == [err |-> MkError("RuntimeError", msg, "", 0, 0), value |-> None]

\* The wall-clock reading clock_native obtains.
ClockSeconds == 0

clock_native(args) == NativeOk(Number(ClockSeconds))

default_print(args) ==
    IF Len(args) # 2 THEN NativeErr("Expected one argument to 'print'.")
    ELSE NativeOk(None)

\* format!("{}", value) for the values the model passes to String.
Display(v) ==
    CASE v.tag = "Number" -> ToString(v.n)
      [] v.tag = "ObjString" -> v.s
      [] v.tag = "None" -> "nil"
      [] v.tag = "Boolean" -> IF v.n = 1 THEN "true" ELSE "false"
      [] OTHER -> "<object>"

string(args) ==
    IF Len(args) # 2 THEN NativeErr("Expected one argument to 'String'.")
    ELSE NativeOk(ObjString(Display(args[2])))

sentinel(args) ==
    IF Len(args) # 1 THEN NativeErr("Expected no arguments to 'sentinel'.")
    ELSE NativeOk(Sentinel)

\* A native's result together with the heap it leaves behind.
WithHeap(m, r) == [err |-> r.err, value |-> r.value, m |-> m]

\* Native methods of the built-in classes (crate::object): Vec.len gives the
\* number of elements of the receiver, Range.__init__ makes the ObjRange of
\* two numbers.
vec_len(m, args) ==
    IF Len(args) # 1 THEN WithHeap(m, NativeErr("Expected no arguments to 'len'."))
    ELSE WithHeap(m, NativeOk(Number(Len(m.vecs[args[1].n].elements))))

range_init(m, args) ==
    IF Len(args) # 3 THEN WithHeap(m, NativeErr("Expected two arguments to 'Range'."))
    ELSE IF args[2].tag # "Number" \/ args[3].tag # "Number"
    THEN WithHeap(m, NativeErr("Expected an integer."))
    ELSE WithHeap([m EXCEPT !.ranges = Append(@, [begin |-> args[2].n, end |-> args[3].n,
                                                  class |-> 2])],
                  NativeOk(ObjRange(Len(m.ranges) + 1)))

\* The boxed function an ObjNative wraps, applied to the argument slice.
NativeFn(m, name, args) ==
    CASE name = "clock" -> WithHeap(m, clock_native(args))
      [] name = "print" -> WithHeap(m, default_print(args))
      [] name = "String" -> WithHeap(m, string(args))
      [] name = "sentinel" -> WithHeap(m, sentinel(args))
      [] name = "Vec.len" -> vec_len(m, args)
      [] name = "Range.__init__" -> range_init(m, args)

(***************************************************************************)
(* The call machine.                                                       *)
(***************************************************************************)
\* call_closure reporting the stored arity (receiver slot included) as the
\* number of expected arguments.
call_closure_WrongExpected(m, closure, arg_count) ==
    LET function == Functions[m.closures[closure].function] IN
    IF arg_count + 1 # function.arity
    THEN Err(m, MkError("TypeError", "Expected {} arguments but got {}.", "",
                        function.arity, arg_count))
    ELSE IF Len(m.frames) = FRAMES_MAX
    THEN Err(m, MkError("IndexError", "Stack overflow.", "", 0, 0))
    ELSE Ok([m EXCEPT !.active_chunk = function.chunk_index,
                      !.frames = Append(@, [closure |-> closure, prev_ip |-> m.ip,
                                            slot_base |-> Len(m.stack) - arg_count - 1]),
                      !.ip = 1])

\* call_closure refusing the call only once the frame stack is over FRAMES_MAX.
call_closure_OffByOne(m, closure, arg_count) ==
    LET function == Functions[m.closures[closure].function] IN
    IF arg_count + 1 # function.arity
    THEN Err(m, MkError("TypeError", "Expected {} arguments but got {}.", "",
                        function.arity - 1, arg_count))
    ELSE IF Len(m.frames) > FRAMES_MAX
    THEN Err(m, MkError("IndexError", "Stack overflow.", "", 0, 0))
    ELSE Ok([m EXCEPT !.active_chunk = function.chunk_index,
                      !.frames = Append(@, [closure |-> closure, prev_ip |-> m.ip,
                                            slot_base |-> Len(m.stack) - arg_count - 1]),
                      !.ip = 1])

\* call_closure taking the first argument's slot, not the callee's, as the
\* base of the new frame.
call_closure_BaseAboveCallee(m, closure, arg_count) ==
    LET function == Functions[m.closures[closure].function] IN
    IF arg_count + 1 # function.arity
    THEN Err(m, MkError("TypeError", "Expected {} arguments but got {}.", "",
                        function.arity - 1, arg_count))
    ELSE IF Len(m.frames) = FRAMES_MAX
    THEN Err(m, MkError("IndexError", "Stack overflow.", "", 0, 0))
    ELSE Ok([m EXCEPT !.active_chunk = function.chunk_index,
                      !.frames = Append(@, [closure |-> closure, prev_ip |-> m.ip,
                                            slot_base |-> Len(m.stack) - arg_count]),
                      !.ip = 1])

\* Vm::call_closure
call_closure(m, closure, arg_count) ==
    LET function == Functions[m.closures[closure].function] IN
    IF arg_count + 1 # function.arity
    THEN Err(m, MkError("TypeError", "Expected {} arguments but got {}.", "",
                        function.arity - 1, arg_count))
    ELSE IF Len(m.frames) = FRAMES_MAX
    THEN Err(m, MkError("IndexError", "Stack overflow.", "", 0, 0))
    ELSE Ok([m EXCEPT !.active_chunk = function.chunk_index,
                      !.frames = Append(@, [closure |-> closure, prev_ip |-> m.ip,
                                            slot_base |-> Len(m.stack) - arg_count - 1]),
                      !.ip = 1])

\* call_native pushing the result without cutting the callee and the
\* arguments off the stack.
call_native_NoTruncate(m, native, arg_count) ==
    LET frame_begin == Len(m.stack) - arg_count - 1
        res == NativeFn(m, native,
                        SubSeq(m.stack, frame_begin + 1, frame_begin + arg_count + 1))
    IN  IF res.err.kind # "" THEN Err(m, res.err)
        ELSE Ok(push(res.m, res.value))

\* Vm::call_native
call_native(m, native, arg_count) ==
    LET frame_begin == Len(m.stack) - arg_count - 1
        res == NativeFn(m, native,
                        SubSeq(m.stack, frame_begin + 1, frame_begin + arg_count + 1))
    IN  IF res.err.kind # "" THEN Err(m, res.err)
        ELSE Ok(push(truncate(res.m, frame_begin), res.value))

\* call_value making the instance of a class without putting it into the
\* callee's slot.
call_value_KeepCallee(m, value, arg_count) ==
    CASE value.tag = "ObjBoundMethod" ->
            LET bound == m.bound_methods[value.n] IN
            call_closure(set_peek(m, arg_count, bound.receiver), bound.method.n, arg_count)
      [] value.tag = "ObjBoundNative" ->
            LET bound == m.bound_methods[value.n] IN
            call_native(set_peek(m, arg_count, bound.receiver), bound.method.s, arg_count)
      [] value.tag = "ObjClass" ->
            LET instance == Len(m.instances) + 1
                m1 == [m EXCEPT !.instances =
                                  Append(@, [class |-> value.n, fields |-> EmptyMap])]
                m2 == m1
                methods == m.classes[value.n].methods
                has_init == init_string \in DOMAIN methods
            IN  IF has_init /\ methods[init_string].tag = "ObjClosure"
                THEN call_closure(m2, methods[init_string].n, arg_count)
                ELSE IF has_init /\ methods[init_string].tag = "ObjNative"
                THEN call_native(m2, methods[init_string].s, arg_count)
                ELSE IF arg_count # 0
                THEN Err(m2, MkError("TypeError", "Expected 0 arguments but got {}.", "",
                                     arg_count, 0))
                ELSE Ok(m2)
      [] value.tag = "ObjClosure" -> call_closure(m, value.n, arg_count)
      [] value.tag = "ObjNative" -> call_native(m, value.s, arg_count)
      [] OTHER -> Err(m, MkError("TypeError", "Can only call functions and classes.",
                                 "", 0, 0))

\* call_value entering a bound method without putting the receiver into the
\* callee's slot.
call_value_BoundKeepsCallee(m, value, arg_count) ==
    CASE value.tag = "ObjBoundMethod" ->
            LET bound == m.bound_methods[value.n] IN
            call_closure(m, bound.method.n, arg_count)
      [] value.tag = "ObjBoundNative" ->
            LET bound == m.bound_methods[value.n] IN
            call_native(set_peek(m, arg_count, bound.receiver), bound.method.s, arg_count)
      [] value.tag = "ObjClass" ->
            LET instance == Len(m.instances) + 1
                m1 == [m EXCEPT !.instances =
                                  Append(@, [class |-> value.n, fields |-> EmptyMap])]
                m2 == set_peek(m1, arg_count, ObjInstance(instance))
                methods == m.classes[value.n].methods
                has_init == init_string \in DOMAIN methods
            IN  IF has_init /\ methods[init_string].tag = "ObjClosure"
                THEN call_closure(m2, methods[init_string].n, arg_count)
                ELSE IF has_init /\ methods[init_string].tag = "ObjNative"
                THEN call_native(m2, methods[init_string].s, arg_count)
                ELSE IF arg_count # 0
                THEN Err(m2, MkError("TypeError", "Expected 0 arguments but got {}.", "",
                                     arg_count, 0))
                ELSE Ok(m2)
      [] value.tag = "ObjClosure" -> call_closure(m, value.n, arg_count)
      [] value.tag = "ObjNative" -> call_native(m, value.s, arg_count)
      [] OTHER -> Err(m, MkError("TypeError", "Can only call functions and classes.",
                                 "", 0, 0))

\* Vm::call_value
call_value(m, value, arg_count) ==
    CASE value.tag = "ObjBoundMethod" ->
            LET bound == m.bound_methods[value.n] IN
            call_closure(set_peek(m, arg_count, bound.receiver), bound.method.n, arg_count)
      [] value.tag = "ObjBoundNative" ->
            LET bound == m.bound_methods[value.n] IN
            call_native(set_peek(m, arg_count, bound.receiver), bound.method.s, arg_count)
      [] value.tag = "ObjClass" ->
            LET instance == Len(m.instances) + 1
                m1 == [m EXCEPT !.instances =
                                  Append(@, [class |-> value.n, fields |-> EmptyMap])]
                m2 == set_peek(m1, arg_count, ObjInstance(instance))
                methods == m.classes[value.n].methods
                has_init == init_string \in DOMAIN methods
            IN  IF has_init /\ methods[init_string].tag = "ObjClosure"
                THEN call_closure(m2, methods[init_string].n, arg_count)
                ELSE IF has_init /\ methods[init_string].tag = "ObjNative"
                THEN call_native(m2, methods[init_string].s, arg_count)
                ELSE IF arg_count # 0
                THEN Err(m2, MkError("TypeError", "Expected 0 arguments but got {}.", "",
                                     arg_count, 0))
                ELSE Ok(m2)
      [] value.tag = "ObjClosure" -> call_closure(m, value.n, arg_count)
      [] value.tag = "ObjNative" -> call_native(m, value.s, arg_count)
      [] OTHER -> Err(m, MkError("TypeError", "Can only call functions and classes.",
                                 "", 0, 0))

\* Vm::invoke_from_class
invoke_from_class(m, class, name, arg_count) ==
    LET methods == m.classes[class].methods IN
    IF name \in DOMAIN methods
    THEN IF methods[name].tag = "ObjClosure"
         THEN call_closure(m, methods[name].n, arg_count)
         ELSE call_native(m, methods[name].s, arg_count)
    ELSE Err(m, MkError("AttributeError", "Undefined property '{}'.", name, 0, 0))

\* invoke looking the name up in the class of an instance before its fields.
invoke_MethodFirst(m, name, arg_count) ==
    LET receiver == peek(m, arg_count) IN
    IF receiver.tag = "ObjInstance"
    THEN LET instance == m.instances[receiver.n] IN
         IF name \in DOMAIN m.classes[instance.class].methods
         THEN invoke_from_class(m, instance.class, name, arg_count)
         ELSE IF name \in DOMAIN instance.fields
         THEN call_value(set_peek(m, arg_count, instance.fields[name]),
                         instance.fields[name], arg_count)
         ELSE invoke_from_class(m, instance.class, name, arg_count)
    ELSE IF receiver.tag = "ObjVec"
    THEN invoke_from_class(m, m.vecs[receiver.n].class, name, arg_count)
    ELSE IF receiver.tag = "ObjRange"
    THEN invoke_from_class(m, m.ranges[receiver.n].class, name, arg_count)
    ELSE Err(m, MkError("ValueError", "Only instances have methods.", "", 0, 0))

\* Vm::invoke (no program of this model makes an ObjVecIter or ObjRangeIter).
invoke(m, name, arg_count) ==
    LET receiver == peek(m, arg_count) IN
    IF receiver.tag = "ObjInstance"
    THEN LET instance == m.instances[receiver.n] IN
         IF name \in DOMAIN instance.fields
         THEN call_value(set_peek(m, arg_count, instance.fields[name]),
                         instance.fields[name], arg_count)
         ELSE invoke_from_class(m, instance.class, name, arg_count)
    ELSE IF receiver.tag = "ObjVec"
    THEN invoke_from_class(m, m.vecs[receiver.n].class, name, arg_count)
    ELSE IF receiver.tag = "ObjRange"
    THEN invoke_from_class(m, m.ranges[receiver.n].class, name, arg_count)
    ELSE Err(m, MkError("ValueError", "Only instances have methods.", "", 0, 0))

\* Vm::bind_method
bind_method(m, class, name) ==
    LET methods == m.classes[class].methods
        instance == peek(m, 0)
        bound == Len(m.bound_methods) + 1
    IN  IF name \notin DOMAIN methods
        THEN Err(m, MkError("AttributeError", "Undefined property '{}'.", name, 0, 0))
        ELSE LET m1 == [m EXCEPT !.bound_methods =
                          Append(@, [receiver |-> instance, method |-> methods[name]])]
             IN  Ok(push(pop(m1),
                         IF methods[name].tag = "ObjClosure"
                         THEN ObjBoundMethod(bound) ELSE ObjBoundNative(bound)))

\* Vm::define_method
define_method(m, name) ==
    LET method == peek(m, 0)
        class == peek(m, 1).n
    IN  Ok(pop([m EXCEPT !.classes[class].methods = Insert(@, name, method)]))

(***************************************************************************)
(* Vm::default and new_root_vm.                                            *)
(***************************************************************************)
\* The built-in classes (object::ROOT_OBJ_VEC_CLASS, ROOT_OBJ_RANGE_CLASS),
\* with the native methods the programs of this model use.
BuiltinClasses ==
    << [name |-> "Vec", methods |-> Insert(EmptyMap, "len", ObjNative("Vec.len"))],
       [name |-> "Range",
        methods |-> Insert(EmptyMap, init_string, ObjNative("Range.__init__"))] >>

RootGlobals ==
    [name \in {"clock", "print", "String", "sentinel", "Vec", "Range"} |->
        CASE name = "Vec" -> ObjClass(1)
          [] name = "Range" -> ObjClass(2)
          [] OTHER -> ObjNative(name)]

OkResult(v) == [ok |-> TRUE, value |-> v, error |-> NoError]
ErrResult(e) == [ok |-> FALSE, value |-> None, error |-> e]

Init ==
    /\ ip = 0
    /\ active_chunk = 0
    /\ frames = <<>>
    /\ stack = <<>>
    /\ globals = RootGlobals
    /\ open_upvalues = <<>>
    /\ closures = <<>>
    /\ upvalues = <<>>
    /\ classes = BuiltinClasses
    /\ instances = <<>>
    /\ bound_methods = <<>>
    /\ vecs = <<>>
    /\ ranges = <<>>
    /\ status = "idle"
    /\ error = NoError
    /\ result = OkResult(None)
    /\ executes = 0
    /\ last = "new_root_vm"
    /\ stale = {}

\* The Vm fields and the heap after a step.
SetVm(m) ==
    /\ ip' = m.ip
    /\ active_chunk' = m.active_chunk
    /\ frames' = m.frames
    /\ stack' = m.stack
    /\ globals' = m.globals
    /\ open_upvalues' = m.open_upvalues
    /\ closures' = m.closures
    /\ upvalues' = m.upvalues
    /\ classes' = m.classes
    /\ instances' = m.instances
    /\ bound_methods' = m.bound_methods
    /\ vecs' = m.vecs
    /\ ranges' = m.ranges

\* object::new_gc_obj_closure: the closure's upvalue array has upvalue_count entries.
new_closure(m, function) ==
    [m EXCEPT !.closures =
        Append(@, [function |-> function,
                   upvalues |-> [i \in 1..Functions[function].upvalue_count |-> 0]])]

(***************************************************************************)
(* Vm::execute up to the call of run: the closure and the arguments are    *)
(* pushed and the call is synthesized; an error of that call is returned   *)
(* by the ? operator as it is.                                             *)
(***************************************************************************)
Execute(function, args) ==
    /\ status = "idle"
    /\ executes < MaxExecutes
    /\ LET m1 == new_closure(Cur, function)
           closure == Len(m1.closures)
           m2 == push(m1, ObjClosure(closure))
           m3 == [m2 EXCEPT !.stack = @ \o args]
           r == call_value(m3, ObjClosure(closure), Len(args))
       IN  /\ SetVm(r.m)
           /\ status' = IF IsErr(r) THEN "idle" ELSE "running"
           /\ result' = IF IsErr(r) THEN ErrResult(r.err) ELSE result
    /\ executes' = executes + 1
    /\ last' = "execute"
    /\ UNCHANGED <<error, stale>>

(***************************************************************************)
(* Vm::run: one action per opcode, each one iteration of the loop.         *)
(***************************************************************************)
Instr == get_chunk(active_chunk).code[ip]

\* The dispatch loop is about to execute opcode op.
Running(op) == status = "running" /\ Instr.op = op

\* The Vm after read_byte! has fetched the opcode and its operands.
Fetched == [Cur EXCEPT !.ip = @ + 1]

\* The loop goes on, or run returns the error with the ? operator / error!.
Continue(r) ==
    /\ SetVm(r.m)
    /\ status' = IF IsErr(r) THEN "error" ELSE "running"
    /\ error' = r.err
    /\ last' = Instr.op
    /\ UNCHANGED <<result, executes, stale>>

\* An index out of bounds or a failed expect: the process aborts.
Panic ==
    /\ status' = "panic"
    /\ last' = Instr.op
    /\ UNCHANGED <<ip, active_chunk, frames, stack, globals, open_upvalues, closures,
                   upvalues, classes, instances, bound_methods, vecs, ranges, error,
                   result, executes, stale>>

RuntimeErr(m, msg, name) == Err(m, MkError("RuntimeError", msg, name, 0, 0))

OpConstant == Running("Constant") /\ Continue(Ok(push(Fetched, read_constant(Fetched, Instr.a))))

OpNil == Running("Nil") /\ Continue(Ok(push(Fetched, None)))

OpTrue == Running("True") /\ Continue(Ok(push(Fetched, Boolean(TRUE))))

OpFalse == Running("False") /\ Continue(Ok(push(Fetched, Boolean(FALSE))))

OpPop == Running("Pop") /\ Continue(Ok(pop(Fetched)))

OpGetLocal ==
    /\ Running("GetLocal")
    /\ Continue(Ok(push(Fetched, slot(Fetched, frame(Fetched).slot_base + Instr.a))))

OpGetGlobal ==
    /\ Running("GetGlobal")
    /\ LET name == read_string(Fetched, Instr.a) IN
       Continue(IF name \in DOMAIN globals
                THEN Ok(push(Fetched, globals[name]))
                ELSE RuntimeErr(Fetched, "Undefined variable '{}'.", name))

OpDefineGlobal ==
    /\ Running("DefineGlobal")
    /\ LET name == read_string(Fetched, Instr.a)
           value == peek(Fetched, 0)
       IN  Continue(Ok(pop([Fetched EXCEPT !.globals = Insert(@, name, value)])))

\* SetGlobal that raises the error without taking the inserted key out again.
SetGlobal_NoRemove(m, name) ==
    LET value == peek(m, 0)
        prev_is_none == name \notin DOMAIN m.globals
        m1 == [m EXCEPT !.globals = Insert(@, name, value)]
    IN  IF prev_is_none
        THEN RuntimeErr(m1, "Undefined variable '{}'.", name)
        ELSE Ok(m1)

\* SetGlobal: insert, and take the key out again when there was no previous value.
SetGlobal(m, name) ==
    LET value == peek(m, 0)
        prev_is_none == name \notin DOMAIN m.globals
        m1 == [m EXCEPT !.globals = Insert(@, name, value)]
    IN  IF prev_is_none
        THEN RuntimeErr([m1 EXCEPT !.globals = Remove(@, name)],
                        "Undefined variable '{}'.", name)
        ELSE Ok(m1)

OpSetGlobal == Running("SetGlobal") /\ Continue(SetGlobal(Fetched, read_string(Fetched, Instr.a)))

\* The upvalue object GetUpvalue / SetUpvalue go through.
FrameUpvalue(m, upvalue_index) == m.closures[frame(m).closure].upvalues[upvalue_index + 1]

OpGetUpvalue ==
    /\ Running("GetUpvalue")
    /\ LET u == upvalues[FrameUpvalue(Fetched, Instr.a)] IN
       IF u.open /\ u.slot >= Len(stack)
       THEN Panic
       ELSE Continue(Ok(push(Fetched, IF u.open THEN slot(Fetched, u.slot) ELSE u.value)))

OpSetUpvalue ==
    /\ Running("SetUpvalue")
    /\ LET id == FrameUpvalue(Fetched, Instr.a)
           u == upvalues[id]
           stack_value == peek(Fetched, 0)
       IN  IF u.open /\ u.slot >= Len(stack)
           THEN Panic
           ELSE Continue(Ok(IF u.open
                            THEN [Fetched EXCEPT !.stack[u.slot + 1] = stack_value]
                            ELSE [Fetched EXCEPT !.upvalues[id] = Closed(stack_value)]))

\* The body of OpCode::GetProperty for the property called name.
get_property(m, name) ==
    LET receiver == peek(m, 0) IN
    IF receiver.tag = "ObjVec"
    THEN bind_method(m, m.vecs[receiver.n].class, name)
    ELSE IF receiver.tag # "ObjInstance"
    THEN RuntimeErr(m, "Only instances have properties.", "")
    ELSE LET instance == m.instances[receiver.n] IN
         IF name \in DOMAIN instance.fields
         THEN Ok(push(pop(m), instance.fields[name]))
         ELSE bind_method(m, instance.class, name)

OpGetProperty ==
    /\ Running("GetProperty")
    /\ Continue(get_property(Fetched, read_string(Fetched, Instr.a)))

OpSetProperty ==
    /\ Running("SetProperty")
    /\ LET receiver == peek(Fetched, 1)
           name == read_string(Fetched, Instr.a)
           value == peek(Fetched, 0)
       IN  Continue(
             IF receiver.tag # "ObjInstance"
             THEN RuntimeErr(Fetched, "Only instances have fields.", "")
             ELSE Ok(push(pop(pop([Fetched EXCEPT !.instances[receiver.n].fields =
                                               Insert(@, name, value)])), value)))

\* The binary_op! macro: $value_type(first $op second) on two numbers.
binary_op(m, op) ==
    LET second_value == peek(m, 0)
        first_value == peek(m, 1)
        m1 == pop(pop(m))
        first == first_value.n
        second == second_value.n
    IN  IF first_value.tag = "Number" /\ second_value.tag = "Number"
        THEN Ok(push(m1, CASE op = ">" -> Boolean(first > second)
                           [] op = "<" -> Boolean(first < second)
                           [] op = "-" -> Number(first - second)
                           [] op = "*" -> Number(first * second)))
        ELSE RuntimeErr(m1, "Binary operands must both be numbers.", "")

OpLess == Running("Less") /\ Continue(binary_op(Fetched, "<"))

OpAdd ==
    /\ Running("Add")
    /\ LET b == peek(Fetched, 0)
           a == peek(Fetched, 1)
           m1 == pop(pop(Fetched))
       IN  Continue(
             IF a.tag = "ObjString" /\ b.tag = "ObjString"
             THEN Ok(push(m1, ObjString(a.s \o b.s)))
             ELSE IF a.tag = "Number" /\ b.tag = "Number"
             THEN Ok(push(m1, Number(a.n + b.n)))
             ELSE RuntimeErr(m1, "Binary operands must be two numbers or two strings.", ""))

OpBuildVec ==
    /\ Running("BuildVec")
    /\ LET num_operands == Instr.a
           begin == Len(stack) - num_operands
           end == Len(stack)
           m1 == [Fetched EXCEPT !.vecs = Append(@, [class |-> 1,
                                    elements |-> SubSeq(stack, begin + 1, end)])]
       IN  Continue(Ok(push(truncate(m1, begin), ObjVec(Len(m1.vecs)))))

OpJump == Running("Jump") /\ Continue(Ok([Fetched EXCEPT !.ip = @ + Instr.a]))

OpJumpIfFalse ==
    /\ Running("JumpIfFalse")
    /\ Continue(Ok(IF ~as_bool(peek(Fetched, 0))
                   THEN [Fetched EXCEPT !.ip = @ + Instr.a]
                   ELSE Fetched))

\* JumpIfSentinel testing the truthiness of the top of the stack.
OpJumpIfSentinel_Truthiness ==
    /\ Running("JumpIfSentinel")
    /\ Continue(Ok(IF ~as_bool(peek(Fetched, 0))
                   THEN [Fetched EXCEPT !.ip = @ + Instr.a]
                   ELSE Fetched))

OpJumpIfSentinel ==
    /\ Running("JumpIfSentinel")
    /\ Continue(Ok(IF peek(Fetched, 0).tag = "Sentinel"
                   THEN [Fetched EXCEPT !.ip = @ + Instr.a]
                   ELSE Fetched))

OpCall ==
    /\ Running("Call")
    /\ Continue(call_value(Fetched, peek(Fetched, Instr.a), Instr.a))

OpInvoke ==
    /\ Running("Invoke")
    /\ Continue(invoke(Fetched, read_string(Fetched, Instr.a), Instr.b))

\* The loop of OpCode::Closure over the upvalue operands, from operand i on.
RECURSIVE CaptureAll(_, _, _, _)
CaptureAll(m, closure, ups, i) ==
    IF i > Len(ups) THEN m
    ELSE LET slot_base == frame(m).slot_base
             r == IF ups[i].is_local
                  THEN capture_upvalue(m, slot_base + ups[i].index)
                  ELSE [m |-> m, upvalue |-> FrameUpvalue(m, ups[i].index)]
         IN  CaptureAll([r.m EXCEPT !.closures[closure].upvalues[i] = r.upvalue],
                        closure, ups, i + 1)

OpClosure ==
    /\ Running("Closure")
    /\ LET function == read_constant(Fetched, Instr.a).s
           m1 == new_closure(Fetched, function)
           closure == Len(m1.closures)
           m2 == push(m1, ObjClosure(closure))
       IN  Continue(Ok(CaptureAll(m2, closure, Instr.ups, 1)))

OpCloseUpvalue ==
    /\ Running("CloseUpvalue")
    /\ Continue(Ok(pop(close_upvalues(Fetched, Len(stack) - 1, peek(Fetched, 0)))))

\* The loop of OpCode::Return: close_upvalues(i, stack[i]) for i in from..(to - 1).
RECURSIVE CloseRange(_, _, _)
CloseRange(m, from, to) ==
    IF from >= to THEN m
    ELSE CloseRange(close_upvalues(m, from, slot(m, from)), from + 1, to)

\* OpCode::Return up to frames.pop(): the result, and the Vm with the
\* upvalues of the frame closed and the frame popped.
ReturnPopped(m) ==
    LET m1 == pop(m)
        m2 == CloseRange(m1, frame(m1).slot_base, Len(m1.stack))
    IN  [m2 EXCEPT !.frames = SubSeq(@, 1, Len(@) - 1)]

\* Return that pushes the result without cutting the stack to the frame's base.
ReturnToCaller_NoTruncate(m, prev_stack_size, prev_ip, returned) ==
    LET prev_chunk_index == Functions[m.closures[frame(m).closure].function].chunk_index
        m1 == [m EXCEPT !.active_chunk = prev_chunk_index, !.ip = prev_ip]
    IN  push(m1, returned)

\* Return that restores the caller's ip and leaves the callee's chunk active.
ReturnToCaller_KeepsChunk(m, prev_stack_size, prev_ip, returned) ==
    LET m1 == [m EXCEPT !.ip = prev_ip]
    IN  push(truncate(m1, prev_stack_size), returned)

\* OpCode::Return when a frame is left: the caller's chunk and ip are
\* restored, the stack is cut to the popped frame's base, the result pushed.
ReturnToCaller(m, prev_stack_size, prev_ip, returned) ==
    LET prev_chunk_index == Functions[m.closures[frame(m).closure].function].chunk_index
        m1 == [m EXCEPT !.active_chunk = prev_chunk_index, !.ip = prev_ip]
    IN  push(truncate(m1, prev_stack_size), returned)

\* The value run returns when Return has popped the last frame, and the Vm then.
FinalReturn(m) == [value |-> peek(m, 0), m |-> pop(m)]

OpReturn ==
    /\ Running("Return")
    /\ LET returned == peek(Fetched, 0)
           prev_stack_size == frame(Fetched).slot_base
           prev_ip == frame(Fetched).prev_ip
           m3 == ReturnPopped(Fetched)
       IN  IF m3.frames = <<>>
           THEN LET fin == FinalReturn(m3) IN
                /\ SetVm(fin.m)
                /\ status' = "idle"
                /\ result' = OkResult(fin.value)
                /\ last' = "Return"
                /\ UNCHANGED <<error, executes, stale>>
           ELSE Continue(Ok(ReturnToCaller(m3, prev_stack_size, prev_ip, returned)))

OpClass ==
    /\ Running("Class")
    /\ LET name == read_string(Fetched, Instr.a)
           m1 == [Fetched EXCEPT !.classes = Append(@, [name |-> name, methods |-> EmptyMap])]
       IN  Continue(Ok(push(m1, ObjClass(Len(m1.classes)))))

\* Inherit that pops the subclass without copying the superclass's methods.
inherit_NoCopy(m) ==
    LET superclass == peek(m, 1) IN
    IF superclass.tag # "ObjClass"
    THEN RuntimeErr(m, "Superclass must be a class.", "")
    ELSE Ok(pop(m))

\* The body of OpCode::Inherit: every (name, method) of the superclass is
\* inserted into the subclass's method table, the subclass is popped.
inherit(m) ==
    LET superclass == peek(m, 1)
        subclass == peek(m, 0).n
    IN  IF superclass.tag # "ObjClass"
        THEN RuntimeErr(m, "Superclass must be a class.", "")
        ELSE LET inherited == m.classes[superclass.n].methods
                 own == m.classes[subclass].methods
                 copied == [name \in (DOMAIN own) \cup (DOMAIN inherited) |->
                              IF name \in DOMAIN inherited THEN inherited[name]
                              ELSE own[name]]
             IN  Ok(pop([m EXCEPT !.classes[subclass].methods = copied]))

\* (A subclass slot that holds no class fails the expect; a class inheriting
\* from itself borrows its RefCell mutably while it is borrowed.)
OpInherit ==
    /\ Running("Inherit")
    /\ IF /\ peek(Fetched, 1).tag = "ObjClass"
          /\ (peek(Fetched, 0).tag # "ObjClass" \/ peek(Fetched, 0).n = peek(Fetched, 1).n)
       THEN Panic
       ELSE Continue(inherit(Fetched))

OpMethod == Running("Method") /\ Continue(define_method(Fetched, read_string(Fetched, Instr.a)))

(***************************************************************************)
(* Vm::runtime_error with Vm::reset_stack, and the return of execute.      *)
(***************************************************************************)
\* A reset that empties the globals map as well.
reset_stack_ClearsGlobals(m) ==
    [m EXCEPT !.stack = <<>>, !.frames = <<>>, !.globals = [name \in {} |-> None]]

reset_stack(m) == [m EXCEPT !.stack = <<>>, !.frames = <<>>]

\* The trace lines appended in the order of the frame stack, outermost first.
TraceLines_OuterFirst(m) ==
    LET n == Len(m.frames)
        ips == [i \in 1..n |-> IF i < n THEN m.frames[i + 1].prev_ip ELSE m.ip]
        LineOf(i) ==
            LET function == Functions[m.closures[m.frames[i].closure].function]
                chunk == get_chunk(function.chunk_index)
            IN  [line |-> chunk.lines[ips[i] - 1],
                 name |-> IF function.name = "" THEN "script" ELSE function.name]
    IN  [k \in 1..n |-> LineOf(k)]

\* The trace lines, innermost frame first.
TraceLines(m) ==
    LET n == Len(m.frames)
        ips == [i \in 1..n |-> IF i < n THEN m.frames[i + 1].prev_ip ELSE m.ip]
        LineOf(i) ==
            LET function == Functions[m.closures[m.frames[i].closure].function]
                chunk == get_chunk(function.chunk_index)
            IN  [line |-> chunk.lines[ips[i] - 1],
                 name |-> IF function.name = "" THEN "script" ELSE function.name]
    IN  [k \in 1..n |-> LineOf(n + 1 - k)]

RuntimeError ==
    /\ status = "error"
    /\ SetVm(reset_stack(Cur))
    /\ result' = ErrResult([error EXCEPT !.trace = @ \o TraceLines(Cur)])
    /\ status' = "idle"
    /\ error' = NoError
    /\ last' = "runtime_error"
    /\ stale' = stale \cup { open_upvalues[i] : i \in 1..Len(open_upvalues) }
    /\ UNCHANGED executes

(***************************************************************************)
(* impl GcManaged for Vm: the values and objects the Vm hands to the        *)
(* collector, each field marking its elements (a map its keys and values,  *)
(* a frame its closure).                                                   *)
(***************************************************************************)
MarkStack(m) == { m.stack[i] : i \in 1..Len(m.stack) }
MarkGlobals(m) ==
    { ObjString(name) : name \in DOMAIN m.globals }
      \cup { m.globals[name] : name \in DOMAIN m.globals }
MarkFrames(m) == { ObjClosure(m.frames[i].closure) : i \in 1..Len(m.frames) }
MarkOpenUpvalues(m) == { ObjUpvalue(m.open_upvalues[k]) : k \in 1..Len(m.open_upvalues) }

mark(m) == MarkStack(m) \cup MarkGlobals(m) \cup MarkFrames(m) \cup MarkOpenUpvalues(m)

blacken(m) == MarkStack(m) \cup MarkGlobals(m) \cup MarkFrames(m) \cup MarkOpenUpvalues(m)

Next ==
    \/ \E input \in ExecuteInputs : Execute(input[1], input[2])
    \/ OpConstant \/ OpNil \/ OpTrue \/ OpFalse \/ OpPop \/ OpGetLocal
    \/ OpGetGlobal \/ OpDefineGlobal \/ OpSetGlobal
    \/ OpGetUpvalue \/ OpSetUpvalue
    \/ OpGetProperty \/ OpSetProperty
    \/ OpLess \/ OpAdd \/ OpBuildVec \/ OpJump \/ OpJumpIfFalse \/ OpJumpIfSentinel
    \/ OpCall \/ OpInvoke
    \/ OpClosure \/ OpCloseUpvalue \/ OpReturn
    \/ OpClass \/ OpInherit \/ OpMethod
    \/ RuntimeError

Spec == Init /\ [][Next]_vars

(***************************************************************************)
(* Properties.                                                             *)
(***************************************************************************)

\* C1: when the first execute on a fresh Vm returns Ok, the operand stack
\* and the frame stack are empty (stack balance), whatever the arguments.
C1_StackBalance ==
    (status = "idle" /\ executes = 1 /\ result.ok) => (stack = <<>> /\ frames = <<>>)

\* C2: when a Return pops the last frame, the value execute returns is the
\* result this Return popped from the top of the operand stack.
C2_ReturnsPoppedResult ==
    [][(Running("Return") /\ Len(frames) = 1)
         => (result'.ok /\ result'.value = peek(Cur, 0))]_vars

\* C3: whenever execute has returned Err, the operand stack and the frame
\* stack are empty.
C3_ErrorResetsStacks ==
    (status = "idle" /\ executes > 0 /\ ~result.ok) => (stack = <<>> /\ frames = <<>>)

\* The open-upvalue list holds an upvalue Open(i) with i >= base.
OpenAtOrAbove(list, heap, base) ==
    \E k \in 1..Len(list) : heap[list[k]].open /\ heap[list[k]].slot >= base

\* C4: after any Return instruction completes (final or not), the
\* open-upvalue list holds no upvalue Open(i) with i >= slot_base of the
\* frame that was popped.
C4_ReturnClosesUpvalues ==
    [][Running("Return")
         => ~OpenAtOrAbove(open_upvalues', upvalues', frame(Cur).slot_base)]_vars

\* C5: in every reachable state every upvalue in the open-upvalue list is
\* Open(i) with i < stack.len().
C5_OpenUpvaluesLive ==
    \A k \in 1..Len(open_upvalues) :
        /\ upvalues[open_upvalues[k]].open
        /\ upvalues[open_upvalues[k]].slot < Len(stack)

\* C6: the upvalues left open by an execute that ended in an error are not
\* observed afterwards: no step changes one of them, no closure created
\* later holds one of them, and no GetUpvalue / SetUpvalue goes through one
\* of them to a stack slot.
C6_StaleUpvaluesUnobserved ==
    [][/\ \A u \in stale : upvalues'[u] = upvalues[u]
       /\ \A c \in (Len(closures) + 1)..Len(closures') :
            \A i \in 1..Len(closures'[c].upvalues) : closures'[c].upvalues[i] \notin stale
       /\ (Running("GetUpvalue") \/ Running("SetUpvalue"))
            => ~(/\ FrameUpvalue(Cur, Instr.a) \in stale
                 /\ upvalues[FrameUpvalue(Cur, Instr.a)].open)]_vars

\* The argument count operand of a Call or Invoke instruction.
ArgCount == IF Instr.op = "Invoke" THEN Instr.b ELSE Instr.a

\* C7: frame discipline.  After a Return that does not pop the last frame
\* the stack height is the popped frame's slot_base + 1, the top of the
\* stack is the returned result and the slots below slot_base are
\* unchanged; the slot_base of a frame pushed by a Call or Invoke is the
\* caller's pre-call height minus argc minus 1.
C7_FrameDiscipline ==
    [][/\ (Running("Return") /\ Len(frames) > 1)
            => LET base == frame(Cur).slot_base IN
               /\ Len(stack') = base + 1
               /\ stack'[base + 1] = peek(Cur, 0)
               /\ SubSeq(stack', 1, base) = SubSeq(stack, 1, base)
       /\ (status = "running" /\ Len(frames') = Len(frames) + 1)
            => frames'[Len(frames')].slot_base = Len(stack) - ArgCount - 1]_vars

\* A Return has handed its result to a caller that has slots of its own
\* below the popped frame.
C7_Witness ==
    /\ last = "Return" /\ status = "running" /\ frames # <<>>
    /\ Len(stack) > frame(Cur).slot_base + 2

\* C8: SetGlobal on a name that is not in the globals map raises
\* RuntimeError and leaves the map as it was; SetGlobal on a defined name
\* overwrites that key only and leaves the value on the stack.
C8_SetGlobal ==
    [][Running("SetGlobal")
         => LET name == read_string(Cur, Instr.a) IN
            IF name \notin DOMAIN globals
            THEN /\ status' = "error"
                 /\ error'.kind = "RuntimeError"
                 /\ globals' = globals
            ELSE /\ status' = "running"
                 /\ globals' = [globals EXCEPT ![name] = peek(Cur, 0)]
                 /\ stack' = stack]_vars

\* SetGlobal on an undefined name has raised its error.
C8_Witness ==
    /\ status = "error" /\ last = "SetGlobal"
    /\ error.kind = "RuntimeError" /\ error.name \notin DOMAIN globals

\* The closure that calling value reaches call_closure with, 0 when none.
ClosureOf(value) ==
    CASE value.tag = "ObjClosure" -> value.n
      [] value.tag = "ObjBoundMethod" -> bound_methods[value.n].method.n
      [] value.tag = "ObjClass" ->
            LET methods == classes[value.n].methods IN
            IF init_string \in DOMAIN methods /\ methods[init_string].tag = "ObjClosure"
            THEN methods[init_string].n ELSE 0
      [] OTHER -> 0

\* The closure the Call or Invoke instruction about to run calls, 0 when none.
CalledClosure ==
    IF Instr.op = "Call" THEN ClosureOf(peek(Cur, Instr.a))
    ELSE IF Instr.op = "Invoke" /\ peek(Cur, Instr.b).tag = "ObjInstance"
    THEN LET instance == instances[peek(Cur, Instr.b).n]
             name == read_string(Cur, Instr.a)
             methods == classes[instance.class].methods
         IN  IF name \in DOMAIN instance.fields THEN ClosureOf(instance.fields[name])
             ELSE IF name \in DOMAIN methods /\ methods[name].tag = "ObjClosure"
             THEN methods[name].n ELSE 0
    ELSE 0

CallsClosure == (Running("Call") \/ Running("Invoke")) /\ CalledClosure # 0
CalledArity == Functions[closures[CalledClosure].function].arity

IsArityError(e, expected, got) ==
    /\ e.kind = "TypeError" /\ e.msg = "Expected {} arguments but got {}."
    /\ e.n1 = expected /\ e.n2 = got

\* C9: calling a closure (directly, as a bound method, as a class
\* initializer or through invoke, or as the call execute synthesizes) with
\* arg_count + 1 # arity yields TypeError "Expected N arguments but got M"
\* with N = arity - 1 and M = arg_count; no frame is pushed and ip and
\* active_chunk are not switched to the callee.
C9_ArityMismatch ==
    [][/\ (CallsClosure /\ ArgCount + 1 # CalledArity)
            => /\ status' = "error"
               /\ IsArityError(error', CalledArity - 1, ArgCount)
               /\ frames' = frames
               /\ active_chunk' = active_chunk
               /\ ip' = ip + 1
       /\ (status = "idle" /\ executes' = executes + 1)
            => LET arity == Functions[closures'[Len(closures')].function].arity
                   arg_count == Len(stack') - Len(stack) - 1
               IN  arg_count + 1 # arity
                     => /\ status' = "idle"
                        /\ ~result'.ok
                        /\ IsArityError(result'.error, arity - 1, arg_count)
                        /\ frames' = frames
                        /\ active_chunk' = active_chunk
                        /\ ip' = ip]_vars

\* A bound method or a class initializer (the callee slot already holds the
\* receiver) has been called with the wrong number of arguments.
C9_Witness ==
    /\ status = "error" /\ last = "Call"
    /\ error.kind = "TypeError" /\ error.msg = "Expected {} arguments but got {}."
    /\ peek(Cur, 0).tag = "ObjInstance"
    /\ frames # <<>>

\* The other routes of C9: invoke of a method, invoke of a field, a direct call.
C9_ReachInvoke ==
    /\ status = "error" /\ last = "Invoke"
    /\ error.kind = "TypeError" /\ error.msg = "Expected {} arguments but got {}."
C9_ReachDirect ==
    /\ status = "error" /\ last = "Call"
    /\ error.kind = "TypeError" /\ error.msg = "Expected {} arguments but got {}."
    /\ peek(Cur, 0).tag = "ObjClosure"

\* C10 as stated: the frame stack never holds more than FRAMES_MAX frames; a
\* closure call made while FRAMES_MAX frames are active yields IndexError
\* "Stack overflow" without pushing a frame; a call made with fewer active
\* frames never yields that error.
C10_Original ==
    [][/\ Len(frames') <= FRAMES_MAX
       /\ (CallsClosure /\ Len(frames) = FRAMES_MAX)
            => /\ status' = "error"
               /\ error'.kind = "IndexError" /\ error'.msg = "Stack overflow."
               /\ frames' = frames
       /\ ((Running("Call") \/ Running("Invoke")) /\ Len(frames) < FRAMES_MAX)
            => ~(error'.kind = "IndexError" /\ error'.msg = "Stack overflow.")]_vars

\* C10 as amended: the frame stack never holds more than FRAMES_MAX frames; a
\* closure call with a matching argument count made while FRAMES_MAX frames
\* are active yields IndexError "Stack overflow", and with a wrong argument
\* count the TypeError of the arity check, in both cases without pushing a
\* frame; a call made with fewer active frames never yields that IndexError.
C10_FrameLimit ==
    [][/\ Len(frames') <= FRAMES_MAX
       /\ (CallsClosure /\ Len(frames) = FRAMES_MAX)
            => /\ status' = "error"
               /\ frames' = frames
               /\ IF ArgCount + 1 = CalledArity
                  THEN error'.kind = "IndexError" /\ error'.msg = "Stack overflow."
                  ELSE error'.kind = "TypeError"
       /\ ((Running("Call") \/ Running("Invoke")) /\ Len(frames) < FRAMES_MAX)
            => ~(error'.kind = "IndexError" /\ error'.msg = "Stack overflow.")]_vars

\* A call with the right argument count has overflowed the frame stack.
C10_Witness ==
    /\ status = "error" /\ error.kind = "IndexError" /\ error.msg = "Stack overflow."
    /\ Len(frames) = FRAMES_MAX

\* The built-in class of a Vec or Range receiver.
BuiltinClassOf(receiver) ==
    IF receiver.tag = "ObjVec" THEN vecs[receiver.n].class ELSE ranges[receiver.n].class

\* GetProperty on receiver tag, naming a method of the receiver's built-in
\* class, replaces the receiver on top of the stack by a bound method/native
\* that pairs the receiver with the method, and raises no error.
PropertyReadBinds(tag) ==
    (Running("GetProperty") /\ peek(Cur, 0).tag = tag
       /\ read_string(Cur, Instr.a) \in DOMAIN classes[BuiltinClassOf(peek(Cur, 0))].methods)
      => LET receiver == peek(Cur, 0)
             method == classes[BuiltinClassOf(receiver)].methods[read_string(Cur, Instr.a)]
             top == stack'[Len(stack')]
         IN  /\ status' = "running"
             /\ Len(stack') = Len(stack)
             /\ SubSeq(stack', 1, Len(stack) - 1) = SubSeq(stack, 1, Len(stack) - 1)
             /\ top.tag \in {"ObjBoundMethod", "ObjBoundNative"}
             /\ bound_methods'[top.n] = [receiver |-> receiver, method |-> method]

\* C11: GetProperty on a Vec receiver and GetProperty on a Range receiver
\* both permit a property read by method binding: when the name is a method
\* of the receiver's built-in class, the receiver on top of the stack is
\* replaced by a bound method/bound native pairing that receiver with the
\* method, and no RuntimeError is raised.
C11_PropertyReadBinds ==
    [][PropertyReadBinds("ObjVec") /\ PropertyReadBinds("ObjRange")]_vars

\* The Vec half of C11 on its own.
C11_VecReadBinds == [][PropertyReadBinds("ObjVec")]_vars

\* A method of Vec has been read from a Vec and bound to it.
C11_VecWitness ==
    /\ last = "GetProperty" /\ status = "running"
    /\ peek(Cur, 0).tag = "ObjBoundNative"
    /\ bound_methods[peek(Cur, 0).n].receiver.tag = "ObjVec"

\* The number of user arguments each native installed by new_root_vm expects.
ExpectedUserArgs(name) == IF name \in {"clock", "sentinel"} THEN 0 ELSE 1

\* A Call of native name with a number of user arguments other than the
\* one it expects returns an error of kind RuntimeError.
ChecksArgsLen(name) ==
    (Running("Call") /\ peek(Cur, Instr.a) = ObjNative(name)
       /\ Instr.a # ExpectedUserArgs(name))
      => (status' = "error" /\ error'.kind = "RuntimeError")

\* C12: every built-in native function installed by new_root_vm (clock,
\* print, String, sentinel) checks args.len() and returns an error of kind
\* RuntimeError when called with a number of user arguments other than the
\* one it expects (0 for clock and sentinel, 1 for print and String).
C12_NativesCheckArgsLen ==
    [][\A name \in {"clock", "print", "String", "sentinel"} : ChecksArgsLen(name)]_vars

\* C12 without clock: print, String and sentinel do check.
C12_OtherNativesCheck ==
    [][\A name \in {"print", "String", "sentinel"} : ChecksArgsLen(name)]_vars

\* print, String or sentinel has refused a call (name is the one refused).
C12_Refused(name) ==
    /\ status = "error" /\ last = "Call" /\ error.kind = "RuntimeError"
    /\ peek(Cur, get_chunk(active_chunk).code[ip - 1].a) = ObjNative(name)

\* The function and the chunk of frame i (1 is the outermost frame).
FrameFunction(i) == Functions[closures[frames[i].closure].function]
FrameChunk(i) == get_chunk(FrameFunction(i).chunk_index)

\* The instruction at which frame i is executing: the one the dispatch loop
\* fetched last for the top frame, the one that made the call for a
\* suspended frame.
ExecutingAt(i) == IF i = Len(frames) THEN ip - 1 ELSE frames[i + 1].prev_ip - 1

\* C13: an error returned by execute carries the initiating diagnostic
\* followed by exactly one trace line per frame that was active when the
\* error was raised, ordered from innermost to outermost frame, and the
\* line reported for each frame is the line of the instruction at which
\* that frame was executing (its call site for a suspended frame, the
\* faulting instruction for the top frame).
C13_ErrorTrace ==
    [][/\ (status = "running" /\ status' = "error")
            => /\ frames' = frames
               /\ active_chunk' = active_chunk
               /\ active_chunk = FrameFunction(Len(frames)).chunk_index
               /\ ip' - 1 = ip
               /\ \A i \in 1..(Len(frames) - 1) :
                     FrameChunk(i).code[frames[i + 1].prev_ip - 1].op \in {"Call", "Invoke"}
       /\ (status = "error" /\ status' = "idle")
            => LET n == Len(frames)
                   e == result'.error
               IN  /\ ~result'.ok
                   /\ [e EXCEPT !.trace = <<>>] = error
                   /\ Len(e.trace) = n
                   /\ \A k \in 1..n :
                        LET i == n + 1 - k IN
                        /\ e.trace[k].line = FrameChunk(i).lines[ExecutingAt(i)]
                        /\ e.trace[k].name = IF FrameFunction(i).name = "" THEN "script"
                                              ELSE FrameFunction(i).name
       /\ (status = "idle" /\ status' = "idle" /\ executes' = executes + 1)
            => (~result'.ok /\ result'.error.trace = <<>> /\ frames = <<>>)]_vars

\* execute has returned an error raised three frames deep: the trace names
\* the method, the function that called it and the script, in that order.
C13_Witness ==
    /\ status = "idle" /\ last = "runtime_error" /\ ~result.ok
    /\ Len(result.error.trace) = 3
    /\ result.error.trace[1].name # "script"
    /\ result.error.trace[2].name # result.error.trace[1].name
    /\ result.error.trace[3].name = "script"

\* Every value referenced from the operand stack, the frame stack, the
\* globals map and the open-upvalue list is in the set reached.
FieldsReached(reached) ==
    /\ \A i \in 1..Len(stack) : stack[i] \in reached
    /\ \A i \in 1..Len(frames) : ObjClosure(frames[i].closure) \in reached
    /\ \A name \in DOMAIN globals : globals[name] \in reached
    /\ \A k \in 1..Len(open_upvalues) : ObjUpvalue(open_upvalues[k]) \in reached

\* C14: the Vm's GC mark/blacken reaches every value referenced from the
\* operand stack, the frame stack (each frame's closure), the globals map,
\* the open-upvalue list, and the initializer-name string (init_string)
\* held by the Vm.
C14_MarkReachesRoots ==
    /\ FieldsReached(mark(Cur)) /\ ObjString(init_string) \in mark(Cur)
    /\ FieldsReached(blacken(Cur)) /\ ObjString(init_string) \in blacken(Cur)

\* C14 without the initializer-name string: the four collections are reached.
C14_CollectionsReached == FieldsReached(mark(Cur)) /\ FieldsReached(blacken(Cur))

\* All four collections hold something for the collector to reach.
C14_AllRootsLive ==
    /\ status = "running" /\ Len(stack) > 1 /\ Len(frames) > 1 /\ open_upvalues # <<>>

\* C15: for bytecode satisfying the compiler contract, in every reachable
\* state and for every active frame f, stack.len() > f.slot_base (slot 0 of
\* the frame is live), and the slot_base values of the frame stack are
\* strictly increasing from the outermost to the innermost frame.
C15_SlotBases ==
    \A i \in 1..Len(frames) :
        /\ Len(stack) > frames[i].slot_base
        /\ i < Len(frames) => frames[i].slot_base < frames[i + 1].slot_base

\* Three frames are active, the innermost one called with an argument, and
\* its frame holds nothing above its parameters.
C15_Witness ==
    /\ status = "running" /\ Len(frames) >= 3
    /\ frames[Len(frames)].slot_base = Len(stack) - 2
    /\ frames[1].slot_base > 0

\* The upvalue objects of the open-upvalue list that are open on location.
OpenOn(location) ==
    { open_upvalues[k] : k \in { j \in 1..Len(open_upvalues) :
                                   is_open_with_index(upvalues[open_upvalues[j]], location) } }

\* Any two upvalue entries of closures that are open on the same slot are
\* one upvalue object, and every open upvalue object is in the list.
OpenShared(cls, heap, list) ==
    /\ \A c1, c2 \in 1..Len(cls) :
         \A i \in 1..Len(cls[c1].upvalues) : \A j \in 1..Len(cls[c2].upvalues) :
            LET u1 == cls[c1].upvalues[i]
                u2 == cls[c2].upvalues[j]
            IN  (heap[u1].open /\ heap[u2].open /\ heap[u1].slot = heap[u2].slot) => u1 = u2
    /\ \A u \in 1..Len(heap) : heap[u].open => \E k \in 1..Len(list) : list[k] = u

\* C16: capture(slot) returns the already-open upvalue for that slot when
\* one exists, so any two closures that capture the same local slot while it
\* is open hold the same upvalue object: a SetUpvalue through one is read by
\* GetUpvalue through the other and by GetLocal of the slot while open, and
\* stays shared between the two closures after the slot is closed.
C16_CaptureShares ==
    [][/\ Running("Closure")
            => \A k \in 1..Len(Instr.ups) :
                 Instr.ups[k].is_local
                   => LET location == frame(Cur).slot_base + Instr.ups[k].index
                          captured == closures'[Len(closures')].upvalues[k]
                      IN  /\ upvalues'[captured] = Open(location)
                          /\ OpenOn(location) # {} => captured \in OpenOn(location)
       /\ OpenShared(closures', upvalues', open_upvalues')
       /\ (Running("SetUpvalue") /\ upvalues[FrameUpvalue(Cur, Instr.a)].open
             /\ status' = "running")
            => stack'[upvalues[FrameUpvalue(Cur, Instr.a)].slot + 1] = peek(Cur, 0)
       /\ (Running("GetUpvalue") /\ status' = "running")
            => LET u == upvalues[FrameUpvalue(Cur, Instr.a)] IN
               stack'[Len(stack')] = IF u.open THEN stack[u.slot + 1] ELSE u.value
       /\ Running("GetLocal")
            => stack'[Len(stack')] = stack[frame(Cur).slot_base + Instr.a + 1]
       /\ (Running("SetUpvalue") /\ ~upvalues[FrameUpvalue(Cur, Instr.a)].open)
            => upvalues'[FrameUpvalue(Cur, Instr.a)] = Closed(peek(Cur, 0))
       /\ \A c \in 1..Len(closures) : closures'[c] = closures[c]]_vars

\* g has read, through the upvalue it shares with s, the 2 that s wrote to
\* the slot while the slot was still open.
C16_Witness ==
    /\ status = "running" /\ last = "GetUpvalue" /\ frames # <<>>
    /\ peek(Cur, 0) = Number(2)
    /\ upvalues[FrameUpvalue(Cur, 0)].open
    /\ \E c \in 1..Len(closures) :
         /\ c # frame(Cur).closure
         /\ closures[c].function = "s"
         /\ closures[c].upvalues[1] = FrameUpvalue(Cur, 0)
    /\ stale = {}

\* C17: at most one open upvalue per slot: in every reachable state the
\* open-upvalue list contains no two entries that reference the same stack
\* slot, including after the same slot has been captured by several Closure
\* instructions.
C17_OneEntryPerSlot ==
    \A j, k \in 1..Len(open_upvalues) :
        j # k => upvalues[open_upvalues[j]].slot # upvalues[open_upvalues[k]].slot

\* What does hold: the entries of the list that reference one slot are one
\* upvalue object.
C17_OneObjectPerSlot ==
    \A j, k \in 1..Len(open_upvalues) :
        upvalues[open_upvalues[j]].slot = upvalues[open_upvalues[k]].slot
          => open_upvalues[j] = open_upvalues[k]

\* The effect of the calls close_upvalues(i, stack[i]) for the slots from
\* lo up to hi - 1: every open upvalue on one of these slots is Closed with
\* the slot's content, every other upvalue object is unchanged, the list
\* keeps exactly its entries that are open on another slot, in their order,
\* and holds open upvalues only.
ClosesSlots(lo, hi) ==
    LET Closing(u) == upvalues[u].open /\ upvalues[u].slot >= lo /\ upvalues[u].slot < hi
        Kept(u) == ~Closing(u)
    IN  /\ Len(upvalues') = Len(upvalues)
        /\ \A u \in 1..Len(upvalues) :
             upvalues'[u] = IF Closing(u) THEN Closed(stack[upvalues[u].slot + 1])
                            ELSE upvalues[u]
        /\ open_upvalues' = SelectSeq(open_upvalues, Kept)
        /\ \A k \in 1..Len(open_upvalues') : upvalues'[open_upvalues'[k]].open

\* C18: close_upvalues(last, value) turns every open upvalue referencing
\* slot last into Closed(value), where value is the content of that slot at
\* the moment of closing, leaves every upvalue open on another slot
\* unchanged and still in the list, and afterwards the open-upvalue list
\* contains only upvalues in the Open state (CloseUpvalue calls it for the
\* top slot, Return for every slot of the frame below the result).
C18_CloseUpvalues ==
    [][/\ Running("CloseUpvalue") => ClosesSlots(Len(stack) - 1, Len(stack))
       /\ Running("Return") => ClosesSlots(frame(Cur).slot_base, Len(stack) - 1)]_vars

\* CloseUpvalue has closed the upvalue of the top slot over the slot's
\* content while an upvalue on a lower slot stays open and in the list.
C18_Witness ==
    /\ status = "running" /\ last = "CloseUpvalue" /\ stale = {}
    /\ \E u \in 1..Len(upvalues) : upvalues[u] = Closed(Number(2))
    /\ \E k \in 1..Len(open_upvalues) : upvalues[open_upvalues[k]] = Open(1)

\* The native function the Call or Invoke instruction about to run reaches
\* call_native with (name is "" when it reaches none) and the argument slice
\* it is to be passed: the arg_count + 1 topmost slots, slot 0 holding the
\* callee, or the receiver when the call has put one there.
NativeCall ==
    LET arg_count == ArgCount
        callee == peek(Cur, arg_count)
        user_args == SubSeq(stack, Len(stack) - arg_count + 1, Len(stack))
        none == [name |-> "", args |-> <<>>]
    IN  IF Instr.op = "Call"
        THEN CASE callee.tag = "ObjNative" ->
                    [name |-> callee.s, args |-> <<callee>> \o user_args]
               [] callee.tag = "ObjBoundNative" ->
                    [name |-> bound_methods[callee.n].method.s,
                     args |-> <<bound_methods[callee.n].receiver>> \o user_args]
               [] OTHER -> none
        ELSE IF callee.tag \in {"ObjVec", "ObjRange"}
        THEN LET methods == classes[BuiltinClassOf(callee)].methods
                 name == read_string(Cur, Instr.a)
             IN  IF name \in DOMAIN methods /\ methods[name].tag = "ObjNative"
                 THEN [name |-> methods[name].s, args |-> <<callee>> \o user_args]
                 ELSE none
        ELSE none

\* C19: a successful native call with arg_count arguments passes exactly
\* the slice stack[slot_base .. slot_base+arg_count+1] (slot_base =
\* stack.len - arg_count - 1), then leaves the stack equal to its first
\* slot_base entries followed by the returned value, and leaves the frame
\* stack, ip and active_chunk unchanged (ip stands behind the call
\* instruction); a failing native call propagates the native's error
\* unchanged in kind.
C19_NativeCall ==
    [][((Running("Call") \/ Running("Invoke")) /\ NativeCall.name # "")
         => LET slot_base == Len(stack) - ArgCount - 1
                res == NativeFn(Cur, NativeCall.name, NativeCall.args)
            IN  /\ Len(NativeCall.args) = ArgCount + 1
                /\ frames' = frames
                /\ active_chunk' = active_chunk
                /\ ip' = ip + 1
                /\ IF res.err.kind = ""
                   THEN /\ status' = "running"
                        /\ stack' = SubSeq(stack, 1, slot_base) \o <<res.value>>
                   ELSE /\ status' = "error"
                        /\ error' = res.err]_vars

\* String(1) has returned: the callee and its argument have given way to
\* the string made of the argument, above the slot of the pending print call.
C19_Witness ==
    /\ status = "running" /\ last = "Call"
    /\ peek(Cur, 0) = ObjString("1")
    /\ peek(Cur, 1) = ObjNative("print")
    /\ Len(stack) = frame(Cur).slot_base + 3

\* A native has failed and its error is the one being propagated.
C19_ReachFailure ==
    /\ status = "error" /\ last = "Call"
    /\ error.msg = "Expected one argument to 'print'."

\* A native method of Vec has been called on its receiver, by Invoke and
\* through a bound native.
C19_ReachInvoke ==
    /\ status = "running" /\ last = "Invoke" /\ peek(Cur, 0) = Number(2)
    /\ peek(Cur, 1) = ObjNative("print")
C19_ReachBound ==
    /\ status = "running" /\ last = "Call" /\ peek(Cur, 0) = Number(2)
    /\ peek(Cur, 1) = ObjNative("print")

\* C20: calling a class that has no __init__ method: with arg_count == 0 the
\* callee slot is overwritten by a fresh instance of that class, the stack
\* height is unchanged and no frame is pushed; with arg_count != 0 a
\* TypeError is raised.  Calling a class whose __init__ is a closure or
\* native calls that initializer with the same arg_count and with slot 0
\* holding the fresh instance.
C20_ClassCall ==
    [][(Running("Call") /\ peek(Cur, Instr.a).tag = "ObjClass")
         => LET arg_count == Instr.a
                class == peek(Cur, arg_count).n
                methods == classes[class].methods
                has_init == init_string \in DOMAIN methods
                fresh == Len(instances) + 1
                slot_base == Len(stack) - arg_count - 1
                with_instance == [stack EXCEPT ![slot_base + 1] = ObjInstance(fresh)]
            IN  /\ Len(instances') = fresh
                /\ instances'[fresh] = [class |-> class, fields |-> EmptyMap]
                /\ SubSeq(instances', 1, Len(instances)) = instances
                /\ IF ~has_init
                   THEN IF arg_count = 0
                        THEN /\ status' = "running"
                             /\ stack' = with_instance
                             /\ frames' = frames
                             /\ active_chunk' = active_chunk /\ ip' = ip + 1
                        ELSE /\ status' = "error"
                             /\ error'.kind = "TypeError"
                             /\ frames' = frames
                   ELSE IF methods[init_string].tag = "ObjClosure"
                   THEN LET initialiser == methods[init_string].n
                            function == Functions[closures[initialiser].function]
                        IN  IF arg_count + 1 = function.arity /\ Len(frames) < FRAMES_MAX
                            THEN /\ status' = "running"
                                 /\ stack' = with_instance
                                 /\ frames' = Append(frames, [closure |-> initialiser,
                                                              prev_ip |-> ip + 1,
                                                              slot_base |-> slot_base])
                                 /\ active_chunk' = function.chunk_index /\ ip' = 1
                            ELSE /\ status' = "error"
                                 /\ frames' = frames
                                 /\ arg_count + 1 # function.arity
                                      => IsArityError(error', function.arity - 1, arg_count)
                   ELSE LET args == SubSeq(with_instance, slot_base + 1, Len(stack))
                            res == NativeFn(Cur, methods[init_string].s, args)
                        IN  /\ frames' = frames
                            /\ IF res.err.kind = ""
                               THEN /\ status' = "running"
                                    /\ stack' = SubSeq(stack, 1, slot_base) \o <<res.value>>
                               ELSE status' = "error" /\ error' = res.err]_vars

\* A class without __init__ has been called with no arguments: its slot
\* holds the instance just made and the frame stack is as before.
C20_Witness ==
    /\ status = "running" /\ last = "Call" /\ Len(frames) = 1
    /\ peek(Cur, 0) = ObjInstance(Len(instances))
    /\ init_string \notin DOMAIN classes[instances[Len(instances)].class].methods

\* The other cases of C20: arguments to a class without __init__, a closure
\* initializer entered, a native initializer returned.
C20_ReachTypeError ==
    /\ status = "error" /\ last = "Call" /\ error.kind = "TypeError"
    /\ error.msg = "Expected 0 arguments but got {}."
C20_ReachClosureInit ==
    /\ status = "running" /\ last = "Call" /\ Len(frames) = 2 /\ ip = 1
    /\ closures[frame(Cur).closure].function = "init"
    /\ slot(Cur, frame(Cur).slot_base).tag = "ObjInstance"
C20_ReachNativeInit ==
    /\ status = "running" /\ last = "Call" /\ peek(Cur, 0).tag = "ObjRange"

\* C21: calling an ObjBoundMethod or ObjBoundNative overwrites the callee
\* slot (stack[stack.len - arg_count - 1]) with the bound receiver before
\* the method is entered, so slot 0 of the new frame (or args[0] of the
\* native) is the receiver recorded at bind time, and the argument slots
\* above it are unchanged.
C21_BoundReceiver ==
    [][/\ (Running("Call") /\ peek(Cur, Instr.a).tag = "ObjBoundMethod"
             /\ status' = "running")
            => LET bound == bound_methods[peek(Cur, Instr.a).n]
                   slot_base == Len(stack) - Instr.a - 1
               IN  /\ Len(frames') = Len(frames) + 1
                   /\ frames'[Len(frames')].slot_base = slot_base
                   /\ frames'[Len(frames')].closure = bound.method.n
                   /\ stack' = [stack EXCEPT ![slot_base + 1] = bound.receiver]
       /\ (Running("Call") /\ peek(Cur, Instr.a).tag = "ObjBoundNative")
            => LET bound == bound_methods[peek(Cur, Instr.a).n]
                   slot_base == Len(stack) - Instr.a - 1
                   args == <<bound.receiver>> \o SubSeq(stack, slot_base + 2, Len(stack))
                   res == NativeFn(Cur, bound.method.s, args)
               IN  IF res.err.kind = ""
                   THEN /\ status' = "running"
                        /\ stack' = SubSeq(stack, 1, slot_base) \o <<res.value>>
                   ELSE /\ status' = "error" /\ error' = res.err
                        /\ stack' = [stack EXCEPT ![slot_base + 1] = bound.receiver]
       /\ \A b \in 1..Len(bound_methods) : bound_methods'[b] = bound_methods[b]
       /\ (Running("GetProperty") /\ Len(bound_methods') = Len(bound_methods) + 1)
            => bound_methods'[Len(bound_methods')].receiver = peek(Cur, 0)]_vars

\* A bound method has been entered with an argument: slot 0 of its frame is
\* the instance it was bound to, the argument stands above it.
C21_Witness ==
    /\ status = "running" /\ last = "Call" /\ Len(frames) = 2 /\ ip = 1
    /\ closures[frame(Cur).closure].function = "m"
    /\ slot(Cur, frame(Cur).slot_base).tag = "ObjInstance"
    /\ peek(Cur, 0) = Number(2)
    /\ Len(stack) = frame(Cur).slot_base + 2

\* A bound native has been called: Vec.len has counted the elements of the
\* Vec it was bound to.
C21_ReachNative ==
    /\ status = "running" /\ last = "Call" /\ peek(Cur, 0) = Number(2)
    /\ peek(Cur, 1) = ObjNative("print")
    /\ bound_methods # <<>>

\* What GetProperty(name) on the receiver followed by Call(arg_count) with
\* the arguments args gives, from the Vm m that has the receiver and the
\* arguments on its stack.
GetPropertyThenCall(m, name, arg_count) ==
    LET args == SubSeq(m.stack, Len(m.stack) - arg_count + 1, Len(m.stack))
        got == get_property(truncate(m, Len(m.stack) - arg_count), name)
        pushed == [got.m EXCEPT !.stack = @ \o args]
    IN  IF IsErr(got) THEN got
        ELSE call_value(pushed, peek(pushed, arg_count), arg_count)

\* C22: for an ObjInstance receiver, Invoke(name, argc) is a fast path
\* equivalent to GetProperty(name) on the receiver followed by Call(argc)
\* with the same arguments: both give the same operand stack contents, the
\* same frame stack, the same ip/active_chunk, or the same error kind, in
\* all four cases (name is a field holding a callable, a field holding a
\* non-callable, a class method, undefined); a field shadows a method of the
\* same name.
C22_InvokeIsGetPropertyCall ==
    [][(Running("Invoke") /\ peek(Cur, Instr.b).tag = "ObjInstance")
         => LET name == read_string(Cur, Instr.a)
                slow == GetPropertyThenCall(Fetched, name, Instr.b)
                instance == instances[peek(Cur, Instr.b).n]
            IN  /\ IF IsErr(slow)
                   THEN status' = "error" /\ error'.kind = slow.err.kind
                   ELSE /\ status' = "running"
                        /\ stack' = slow.m.stack
                        /\ frames' = slow.m.frames
                        /\ ip' = slow.m.ip
                        /\ active_chunk' = slow.m.active_chunk
                /\ (name \in DOMAIN instance.fields /\ instance.fields[name].tag = "Number")
                     => (status' = "error" /\ error'.kind = "TypeError")]_vars

\* Invoke has called a field that holds a callable: the method bound to the
\* instance is entered with the argument of the call.
C22_Witness ==
    /\ status = "running" /\ last = "Invoke" /\ Len(frames) = 2 /\ ip = 1
    /\ peek(Cur, 0) = Number(3)
    /\ slot(Cur, frame(Cur).slot_base).tag = "ObjInstance"
    /\ "f" \in DOMAIN instances[slot(Cur, frame(Cur).slot_base).n].fields

\* The other cases of C22: a class method, a field that holds a number and
\* shadows a method, an undefined name.
C22_ReachMethod ==
    /\ status = "running" /\ last = "Invoke" /\ Len(frames) = 2 /\ ip = 1
    /\ peek(Cur, 0) = Number(1)
C22_ReachShadow ==
    /\ status = "error" /\ last = "Invoke" /\ error.kind = "TypeError"
    /\ error.msg = "Can only call functions and classes."
    /\ peek(Cur, 1) = Number(5)
C22_ReachUndefined ==
    /\ status = "error" /\ last = "Invoke" /\ error.kind = "AttributeError"

\* C23: after Inherit with a class at peek(1), the subclass's method table
\* contains every (name, method) of the superclass, the superclass's method
\* table is unchanged, only the subclass is popped (the superclass stays on
\* the stack), and a later Method on the subclass overrides the inherited
\* entry without changing the superclass; if peek(1) is not a class, a
\* RuntimeError is raised and no method table is changed.
C23_Inherit ==
    [][/\ Running("Inherit")
            => IF peek(Cur, 1).tag = "ObjClass"
               THEN LET superclass == peek(Cur, 1).n
                        subclass == peek(Cur, 0).n
                    IN  /\ status' = "running"
                        /\ \A name \in DOMAIN classes[superclass].methods :
                             /\ name \in DOMAIN classes'[subclass].methods
                             /\ classes'[subclass].methods[name]
                                  = classes[superclass].methods[name]
                        /\ \A c \in 1..Len(classes) : c # subclass => classes'[c] = classes[c]
                        /\ stack' = SubSeq(stack, 1, Len(stack) - 1)
                        /\ stack'[Len(stack')] = ObjClass(superclass)
               ELSE /\ status' = "error"
                    /\ error'.kind = "RuntimeError"
                    /\ classes' = classes
       /\ Running("Method")
            => LET class == peek(Cur, 1).n
                   name == read_string(Cur, Instr.a)
               IN  /\ classes'[class].methods[name] = peek(Cur, 0)
                   /\ \A c \in 1..Len(classes) : c # class => classes'[c] = classes[c]]_vars

\* A Method on the subclass has overridden an inherited entry: the
\* superclass still has its own m, and the subclass still has the k it
\* inherited.
C23_Witness ==
    /\ status = "running" /\ last = "Method"
    /\ peek(Cur, 0).tag = "ObjClass" /\ peek(Cur, 1).tag = "ObjClass"
    /\ LET subclass == classes[peek(Cur, 0).n].methods
           superclass == classes[peek(Cur, 1).n].methods
       IN  /\ peek(Cur, 0) # peek(Cur, 1)
           /\ "m" \in DOMAIN subclass /\ "m" \in DOMAIN superclass
           /\ subclass["m"] # superclass["m"]
           /\ "k" \in DOMAIN subclass /\ subclass["k"] = superclass["k"]

\* Inherit has refused a superclass that is not a class.
C23_ReachNotAClass ==
    /\ status = "error" /\ last = "Inherit" /\ error.msg = "Superclass must be a class."

\* The inherited method has been invoked on an instance of the subclass.
C23_ReachInherited ==
    /\ status = "running" /\ last = "Invoke" /\ Len(frames) = 2 /\ ip = 1
    /\ instances[slot(Cur, frame(Cur).slot_base).n].class = Len(classes)
    /\ classes[Len(classes)].name = "Q"

\* The chunk index of the function of frame i of frame stack fs.
ChunkOfFrame(fs, cls, i) == Functions[cls[fs[i].closure].function].chunk_index

\* C24: between instructions, whenever the frame stack is non-empty,
\* active_chunk is the chunk of the top frame's closure's function and ip
\* points into that chunk; a closure call and a Return switch both
\* together, a failed call (arity mismatch or stack overflow) switches
\* neither, and after a non-final Return ip equals the prev_ip saved by the
\* matching call (the instruction following the Call/Invoke and its
\* operands).
C24_ChunkAndIp ==
    [][/\ frames' # <<>>
            => /\ active_chunk' = ChunkOfFrame(frames', closures', Len(frames'))
               /\ ip' \in 1..Len(get_chunk(active_chunk').code)
       /\ ((Running("Call") \/ Running("Invoke")) /\ Len(frames') = Len(frames) + 1)
            => /\ status' = "running"
               /\ ip' = 1
               /\ frames'[Len(frames')].prev_ip = ip + 1
               /\ SubSeq(frames', 1, Len(frames)) = frames
       /\ ((Running("Call") \/ Running("Invoke")) /\ Len(frames') = Len(frames))
            => (active_chunk' = active_chunk /\ ip' = ip + 1)
       /\ ((Running("Call") \/ Running("Invoke")) /\ status' = "error")
            => (frames' = frames /\ active_chunk' = active_chunk /\ ip' = ip + 1)
       /\ (Running("Return") /\ Len(frames) > 1)
            => /\ status' = "running"
               /\ frames' = SubSeq(frames, 1, Len(frames) - 1)
               /\ ip' = frame(Cur).prev_ip
               /\ get_chunk(active_chunk').code[ip' - 1].op \in {"Call", "Invoke"}
       /\ (status = "idle" /\ status' = "running")
            => (ip' = 1 /\ Len(frames') = 1)]_vars

\* A Return has gone back from a function to the instruction after the call
\* in the script, whose chunk is another one.
C24_Witness ==
    /\ status = "running" /\ last = "Return" /\ Len(frames) = 1
    /\ ip > 1
    /\ get_chunk(active_chunk).code[ip - 1].op = "Call"
    /\ active_chunk = ChunkOfFrame(frames, closures, 1)

\* A call has failed with the caller's chunk and ip still in place.
C24_ReachFailedCall ==
    /\ status = "error" /\ last = "Call" /\ error.kind \in {"TypeError", "IndexError"}
    /\ Len(frames) > 1
    /\ get_chunk(active_chunk).code[ip - 1].op = "Call"

\* The instruction the dispatch loop has just executed.
Executed == get_chunk(active_chunk).code[ip - 1]

\* C25: JumpIfSentinel and JumpIfFalse never change the operand stack;
\* JumpIfSentinel jumps if and only if the top of the stack is the Sentinel
\* variant (it does not jump on None or Boolean(false)), and JumpIfFalse
\* jumps if and only if the top is None or Boolean(false) (it does not jump
\* on Sentinel).
C25_ConditionalJumps ==
    [][/\ Running("JumpIfSentinel")
            => /\ status' = "running" /\ stack' = stack /\ Instr.a > 0
               /\ ip' = IF peek(Cur, 0) = Sentinel THEN ip + 1 + Instr.a ELSE ip + 1
       /\ Running("JumpIfFalse")
            => /\ status' = "running" /\ stack' = stack /\ Instr.a > 0
               /\ ip' = IF peek(Cur, 0) \in {None, Boolean(FALSE)} THEN ip + 1 + Instr.a
                         ELSE ip + 1]_vars

\* JumpIfSentinel has jumped over the loop body with the Sentinel on top.
C25_Witness ==
    /\ status = "running" /\ last = "JumpIfSentinel"
    /\ peek(Cur, 0) = Sentinel /\ Executed.op = "Jump"

\* JumpIfSentinel has not jumped on None and on Boolean(false), JumpIfFalse
\* has not jumped on the Sentinel and has jumped on None.
C25_ReachSentinelOnNone ==
    /\ status = "running" /\ last = "JumpIfSentinel"
    /\ peek(Cur, 0) = None /\ Executed.op = "JumpIfSentinel"
C25_ReachSentinelOnFalse ==
    /\ status = "running" /\ last = "JumpIfSentinel"
    /\ peek(Cur, 0) = Boolean(FALSE) /\ Executed.op = "JumpIfSentinel"
C25_ReachFalseOnSentinel ==
    /\ status = "running" /\ last = "JumpIfFalse"
    /\ peek(Cur, 0) = Sentinel /\ Executed.op = "JumpIfFalse"
C25_ReachFalseOnNone ==
    /\ status = "running" /\ last = "JumpIfFalse"
    /\ peek(Cur, 0) = None /\ Executed.op = "Jump"

\* C26: the reset made when execute ends in an error clears only the operand
\* stack and the frame stack.  The instruction that fails leaves the globals
\* map as the last completed instruction left it, the reset leaves the map
\* and every other field alone, and the execute that follows starts with the
\* same map, the built-ins included.
C26_ResetKeepsGlobals ==
    [][/\ (status = "running" /\ status' = "error") => globals' = globals
       /\ status = "error"
            => /\ status' = "idle" /\ ~result'.ok
               /\ stack' = <<>> /\ frames' = <<>>
               /\ globals' = globals
               /\ UNCHANGED <<ip, active_chunk, open_upvalues, closures, upvalues,
                              classes, instances, bound_methods, vecs, ranges>>
       /\ (status = "idle" /\ last = "runtime_error")
            => /\ globals' = globals
               /\ \A name \in DOMAIN RootGlobals :
                       name \in DOMAIN globals' /\ globals'[name] = RootGlobals[name]]_vars

\* The first execute has defined the global get and ended in an error; the
\* second execute has read the closure back with GetGlobal.
C26_Witness ==
    /\ status = "running" /\ executes = 2 /\ last = "GetGlobal"
    /\ ~result.ok /\ result.error.trace # <<>>
    /\ "get" \in DOMAIN globals
    /\ globals["get"] # None /\ peek(Cur, 0) = globals["get"]

\* The reset has emptied a stack of several slots and several frames while
\* user-defined globals were present.
C26_ReachReset ==
    /\ status = "idle" /\ last = "runtime_error"
    /\ stack = <<>> /\ frames = <<>>
    /\ Len(result.error.trace) > 1
    /\ DOMAIN globals # DOMAIN RootGlobals
====
